---- MODULE Spec2Model ----
(***************************************************************************)
(* Model of the test-orchestration core of the Playwright-MCP backend:     *)
(*   - MCPServer (services/mcp_server.py): prompt interpretation           *)
(*   - EnhancedTestExecutor (services/enhanced_test_executor.py): the test *)
(*     runner, the action executor and the in-process status store         *)
(*   - routes/chat.py: the chat (asynchronous), synchronous, status and    *)
(*     results entry points                                                *)
(*                                                                         *)
(* A prompt is a sequence of whitespace-separated tokens.  Lower-casing    *)
(* and substring tests are tables over the token vocabulary.               *)
(***************************************************************************)
EXTENDS Integers, Sequences, FiniteSets, TLC

VARIABLES
    test_status,    \* EnhancedTestExecutor.test_status   : id -> status
    test_results,   \* EnhancedTestExecutor.test_results  : id -> result
    running_tests,  \* EnhancedTestExecutor.running_tests : ids with a thread
    worker,         \* the background threads: id -> [pc, request, result, exc]
    chat,           \* the /chat/message handler in flight
    used,           \* how many uuid4 values were handed out so far
    resp,           \* the HTTP response sent by the step just taken, if any
    reads,          \* a get_test_results return remembered after the job ended
    run,            \* one test run, statement by statement (SpecRunner)
    call            \* one call of TestExecutor._execute_action (SpecAction)

vars == <<test_status, test_results, running_tests, worker, chat, used,
          resp, reads, run, call>>

storeVars == <<test_status, test_results, running_tests>>

----------------------------------------------------------------------------
(* Bounds *)

MaxJobs == 2          \* uuid4 values drawn in one behaviour
MaxReads == 2         \* get_test_results calls counted for the remembered id
MaxActions == 2       \* length of an action list handed to the action loop

Ids == 1 .. (MaxJobs + 1)

None == "None"
Absent == "absent"

----------------------------------------------------------------------------
(* Prompts *)

UrlTokens == {"https://example.com", "https://Example.com/A",
              "https://example.com/a"}
QuotedTokens == {"\"Bob\"", "\"bob\""}
DomainTokens == {"example.com"}

Prompts ==
    { <<"take", "a", "screenshot", "of", "https://example.com">>,
      <<"Screenshot", "https://Example.com/A">>,
      <<"take", "a", "screenshot">>,
      <<"check", "https://example.com">>,
      <<"verify", "login">>,
      <<"test", "login", "on", "example.com">>,
      <<"test", "the", "api", "endpoint", "/users">>,
      <<"test", "post", "api", "https://example.com">>,
      <<"full", "test", "of", "example.com">>,
      <<"go", "to", "https://example.com", "and", "take", "a", "screenshot">>,
      <<"take", "a", "screenshot", "and", "go", "to", "https://example.com">>,
      <<"test", "https://example.com">>,
      <<"check", "https://Example.com/A", "and", "https://example.com">>,
      <<"click", "login", "then", "verify", "success", "and", "type", "password">>,
      <<"type", "\"Bob\"", "and", "click", "submit">>,
      <<"test", "login", "api">>,
      <<"open", "https://Example.com/A", "and", "take", "a", "screenshot">>,
      <<"full", "test", "api">>,
      <<"test", "the", "GET", "/users", "endpoint", "returning", "JSON">>,
      <<"hello">>,
      <<"help">>,
      <<"thanks">> }

\* str.lower() of one token
LowerTok(t) ==
    CASE t = "Screenshot" -> "screenshot"
      [] t = "https://Example.com/A" -> "https://example.com/a"
      [] t = "\"Bob\"" -> "\"bob\""
      [] t = "GET" -> "get"
      [] t = "JSON" -> "json"
      [] OTHER -> t

\* str.lower() of a prompt
Lower(p) == [i \in 1 .. Len(p) |-> LowerTok(p[i])]

\* the keywords and pattern literals that occur inside a token as a substring
Substrings(t) ==
    CASE t = "screenshot" -> {"screenshot"}
      [] t = "test" -> {"test"}
      [] t = "api" -> {"api"}
      [] t = "endpoint" -> {"endpoint", "end"}
      [] t = "check" -> {"check"}
      [] t = "verify" -> {"verify"}
      [] t = "login" -> {"login"}
      [] t = "full" -> {"full"}
      [] t = "post" -> {"post"}
      [] t = "to" -> {"to"}
      [] t = "hello" -> {"hello"}
      [] t = "help" -> {"help"}
      [] t = "json" -> {"json"}
      [] t = "open" -> {"open"}
      [] t = "click" -> {"click"}
      [] t = "type" -> {"type"}
      [] t = "submit" -> {"submit"}
      [] t = "password" -> {"password"}
      [] t = "success" -> {"success"}
      [] t = "https://example.com" -> {"http"}
      [] t = "https://example.com/a" -> {"http"}
      [] t = "https://Example.com/A" -> {"http"}
      [] OTHER -> {}

\* keyword in message
Contains(p, kw) == \E i \in 1 .. Len(p) : kw \in Substrings(p[i])

\* a literal of several words in the message: the words follow one another,
\* one blank apart (no token of the vocabulary ends or begins with a word of
\* such a literal without being that word)
ContainsPhrase(p, words) ==
    \E i \in 1 .. (Len(p) - Len(words) + 1) :
        \A k \in 1 .. Len(words) : p[i + k - 1] = words[k]

\* pattern in message, for a literal given as its words
InMessage(p, words) ==
    IF Len(words) = 1 THEN Contains(p, words[1]) ELSE ContainsPhrase(p, words)

\* re.search of the pattern  lits[1].*lits[2]. ... .*lits[n]  in the message:
\* the literals occur in this order (no token of the vocabulary holds two
\* literals of one pattern)
RECURSIVE SearchFrom(_, _, _)
SearchFrom(p, lits, from) ==
    IF lits = <<>> THEN TRUE
    ELSE \E i \in from .. Len(p) :
            /\ Head(lits) \in Substrings(p[i])
            /\ SearchFrom(p, Tail(lits), i + 1)

Search(p, lits) == SearchFrom(p, lits, 1)

----------------------------------------------------------------------------
(* MCPServer: the prompt interpreter *)

test_keywords ==
    {"test", "check", "verify", "validate", "ensure",
     "screenshot", "click", "navigate", "api", "endpoint"}

\* variant: every message is taken for a test request
IsTestRequestAlways(message) == TRUE

\* MCPServer._is_test_request (message already lower-cased)
IsTestRequest(message) == \E kw \in test_keywords : Contains(message, kw)

ui_test_patterns ==
    << <<"test", "login">>, <<"check", "form">>, <<"verify", "button">>,
       <<"click", "element">>, <<"navigate", "to">>, <<"screenshot">>,
       <<"test", "ui">>, <<"check", "page">>, <<"verify", "element">> >>

api_test_patterns ==
    << <<"test", "api">>, <<"check", "endpoint">>, <<"verify", "response">>,
       <<"test", "request">>, <<"api", "call">>, <<"http", "request">>,
       <<"rest", "api">>, <<"json", "response">> >>

mixed_test_patterns ==
    << <<"test", "workflow">>, <<"end", "to", "end">>,
       <<"integration", "test">>, <<"full", "test">> >>

MatchesGroup(message, patterns) ==
    \E k \in 1 .. Len(patterns) : Search(message, patterns[k])

\* variant: the api group is scanned before the ui group
DetermineTestTypeApiFirst(message) ==
    IF MatchesGroup(message, api_test_patterns) THEN "api"
    ELSE IF MatchesGroup(message, ui_test_patterns) THEN "ui"
    ELSE IF MatchesGroup(message, mixed_test_patterns) THEN "mixed"
    ELSE "ui"

\* MCPServer._determine_test_type: the groups in dict order, first match wins
DetermineTestType(message) ==
    IF MatchesGroup(message, ui_test_patterns) THEN "ui"
    ELSE IF MatchesGroup(message, api_test_patterns) THEN "api"
    ELSE IF MatchesGroup(message, mixed_test_patterns) THEN "mixed"
    ELSE "ui"

\* re.findall(r'https?://[^\s]+', message), in prompt order
RECURSIVE FindUrls(_)
FindUrls(p) ==
    IF p = <<>> THEN <<>>
    ELSE (IF Head(p) \in UrlTokens THEN <<Head(p)>> ELSE <<>>) \o FindUrls(Tail(p))

\* re.findall(r'(?:preps)\s+([a-zA-Z0-9.-]+\.[a-zA-Z]{2,})', message)
RECURSIVE FindDomains(_, _)
FindDomains(p, preps) ==
    IF Len(p) < 2 THEN <<>>
    ELSE (IF p[1] \in preps /\ p[2] \in DomainTokens THEN <<p[2]>> ELSE <<>>)
         \o FindDomains(Tail(p), preps)

\* f"https://{domain}"
HttpsOf(d) == CASE d = "example.com" -> "https://example.com" [] OTHER -> d

\* variant: the URL is looked for in the lower-cased message
ExtractUrlLowered(message) ==
    LET urls == FindUrls(Lower(message))
        domains == FindDomains(Lower(message), {"on", "at", "from"})
    IN  IF urls # <<>> THEN urls[1]
        ELSE IF domains # <<>> THEN HttpsOf(domains[1])
        ELSE None

\* MCPServer._extract_url
ExtractUrl(message) ==
    LET urls == FindUrls(message)
        domains == FindDomains(message, {"on", "at", "from"})
    IN  IF urls # <<>> THEN urls[1]
        ELSE IF domains # <<>> THEN HttpsOf(domains[1])
        ELSE None

default_options == [browser |-> "chromium", headless |-> TRUE, timeout |-> 30000]

\* MCPServer.action_patterns, each literal as its words
action_patterns ==
    [navigate |-> << <<"go", "to">>, <<"navigate", "to">>, <<"visit">>, <<"open">> >>,
     click |-> << <<"click">>, <<"press">>, <<"tap">> >>,
     type |-> << <<"type">>, <<"enter">>, <<"input">>, <<"fill">> >>,
     verify |-> << <<"verify">>, <<"check">>, <<"validate">>, <<"ensure">> >>,
     screenshot |-> << <<"screenshot">>, <<"capture">>, <<"image">> >>,
     wait |-> << <<"wait">>, <<"pause">>, <<"delay">> >>]

\* any(pattern in message for pattern in self.action_patterns[kind])
AnyPattern(message, kind) ==
    \E k \in 1 .. Len(action_patterns[kind]) :
        InMessage(message, action_patterns[kind][k])

\* an action dict of the interpreter; None stands for a key the dict lacks
Action(type, url, target, text, condition) ==
    [type |-> type, url |-> url, target |-> target, text |-> text,
     condition |-> condition]

ui_elements ==
    <<"button", "link", "menu", "tab", "checkbox", "radio",
      "submit", "login", "signup", "search", "close", "cancel">>

\* MCPServer._extract_click_targets
ExtractClickTargets(message) ==
    LET targets == SelectSeq(ui_elements, LAMBDA e : Contains(message, e))
    IN  IF targets # <<>> THEN targets ELSE <<"button">>

\* the text between the quotes of a quoted token
Unquote(t) == CASE t = "\"bob\"" -> "bob" [] t = "\"Bob\"" -> "Bob" [] OTHER -> t

\* re.findall(r'"([^"]*)"', message)
RECURSIVE FindQuoted(_)
FindQuoted(p) ==
    IF p = <<>> THEN <<>>
    ELSE (IF Head(p) \in QuotedTokens THEN <<Unquote(Head(p))>> ELSE <<>>)
         \o FindQuoted(Tail(p))

\* MCPServer._extract_text_to_type
ExtractTextToType(message) ==
    LET quoted_text == FindQuoted(message) IN
    IF quoted_text # <<>> THEN quoted_text[1]
    ELSE IF Contains(message, "username") \/ Contains(message, "email")
         THEN "test@example.com"
    ELSE IF Contains(message, "password") THEN "testpassword123"
    ELSE "test input"

\* MCPServer._extract_verification_condition
ExtractVerificationCondition(message) ==
    IF Contains(message, "success") THEN "success_message"
    ELSE IF Contains(message, "error") THEN "error_message"
    ELSE IF Contains(message, "redirect") THEN "page_redirect"
    ELSE IF Contains(message, "element") THEN "element_present"
    ELSE "page_loaded"

\* the five blocks of MCPServer._parse_actions, each giving the actions it
\* appends
NavigateActions(message) ==
    LET url == ExtractUrl(message) IN
    IF AnyPattern(message, "navigate") /\ url # None
    THEN <<Action("navigate", url, None, None, None)>> ELSE <<>>

ClickActions(message) ==
    LET click_targets == ExtractClickTargets(message) IN
    IF AnyPattern(message, "click")
    THEN [k \in 1 .. Len(click_targets) |->
              Action("click", None, click_targets[k], None, None)]
    ELSE <<>>

TypeActions(message) ==
    IF AnyPattern(message, "type")
    THEN <<Action("type", None, None, ExtractTextToType(message), None)>>
    ELSE <<>>

VerifyActions(message) ==
    IF AnyPattern(message, "verify")
    THEN <<Action("verify", None, None, None,
                  ExtractVerificationCondition(message))>>
    ELSE <<>>

ScreenshotActions(message) ==
    IF AnyPattern(message, "screenshot")
    THEN <<Action("screenshot", None, None, None, None)>> ELSE <<>>

\* variant: the screenshot block comes first
ParseActionsScreenshotFirst(message) ==
    ScreenshotActions(message) \o NavigateActions(message)
        \o ClickActions(message) \o TypeActions(message) \o VerifyActions(message)

\* MCPServer._parse_actions (message already lower-cased)
ParseActions(message) ==
    NavigateActions(message) \o ClickActions(message) \o TypeActions(message)
        \o VerifyActions(message) \o ScreenshotActions(message)

\* MCPServer._generate_conversational_response: which of its three texts
GenerateConversationalResponse(message) ==
    LET lower == Lower(message) IN
    IF \E g \in {"hello", "hi", "hey"} : Contains(lower, g)
    THEN "Hello! I'm here to help you with UI and API testing. ..."
    ELSE IF \/ Contains(lower, "help") \/ Contains(lower, "how")
            \/ ContainsPhrase(lower, <<"what", "can", "you", "do">>)
         THEN "I can help you with various types of testing: ..."
    ELSE "I understand. I'm here to help you with testing. ..."

\* MCPServer.process_message; None stands for a key the dict lacks
ProcessMessage(message) ==
    LET message_lower == Lower(message) IN
    IF ~IsTestRequest(message_lower)
    THEN [is_test_request |-> FALSE, test_type |-> None, target_url |-> None,
          actions |-> <<>>,
          content |-> GenerateConversationalResponse(message)]
    ELSE [is_test_request |-> TRUE,
          test_type |-> DetermineTestType(message_lower),
          target_url |-> ExtractUrl(message),
          actions |-> ParseActions(message_lower),
          content |-> None]

NoIntent ==
    [is_test_request |-> FALSE, test_type |-> None, target_url |-> None,
     actions |-> <<>>, content |-> None]

\* the test_request dict built by handle_chat_message and by execute_test
TestRequest(id, prompt, test_type, target_url) ==
    [test_id |-> id, prompt |-> prompt, test_type |-> test_type,
     target_url |-> target_url, options |-> default_options]

----------------------------------------------------------------------------
(* EnhancedTestExecutor: parsing the prompt *)

\* EnhancedTestExecutor._parse_actions_from_prompt
ParseActionsFromPrompt(prompt) ==
    LET prompt_lower == Lower(prompt)
        found == FindUrls(prompt)
        domains == FindDomains(prompt, {"on", "at", "from", "of"})
        urls == IF found # <<>> THEN found
                ELSE IF domains # <<>> THEN <<HttpsOf(domains[1])>>
                ELSE <<>>
        nav == IF urls # <<>> THEN <<[type |-> "navigate", url |-> urls[1]]>>
               ELSE <<>>
        shot == IF Contains(prompt_lower, "screenshot")
                THEN <<[type |-> "screenshot", url |-> None]>> ELSE <<>>
        actions == nav \o shot
    IN  IF actions = <<>> /\ urls # <<>>
        THEN <<[type |-> "screenshot", url |-> None]>>
        ELSE actions

EndpointTokens == {"/users"}

RECURSIVE FindEndpoints(_)
FindEndpoints(p) ==
    IF p = <<>> THEN <<>>
    ELSE (IF Head(p) \in EndpointTokens THEN <<Head(p)>> ELSE <<>>)
         \o FindEndpoints(Tail(p))

\* f"https://api.example.com{endpoint}"
ApiHostOf(e) == CASE e = "/users" -> "https://api.example.com/users" [] OTHER -> e

\* EnhancedTestExecutor._parse_api_from_prompt
ParseApiFromPrompt(prompt) ==
    LET found == FindUrls(prompt)
        endpoints == FindEndpoints(prompt)
        urls == IF found # <<>> THEN found
                ELSE IF endpoints # <<>> THEN <<ApiHostOf(endpoints[1])>>
                ELSE <<>>
        lower == Lower(prompt)
        method == IF Contains(lower, "post") THEN "POST"
                  ELSE IF Contains(lower, "put") THEN "PUT"
                  ELSE IF Contains(lower, "delete") THEN "DELETE"
                  ELSE "GET"
    IN  [method |-> method,
         url |-> IF urls # <<>> THEN urls[1] ELSE "https://api.example.com/test"]


----------------------------------------------------------------------------
(* EnhancedTestExecutor: results and scripts *)

\* what an external operation (browser, HTTP) does when called
Outcomes == {"ok", "raise"}

\* the HTTP status codes the mock endpoint answers with, and their value
StatusCodes == {"200", "400"}
CodeNum(c) == CASE c = "200" -> 200 [] c = "400" -> 400

BodyKinds == {"json", "text"}

\* EnhancedTestExecutor._generate_error_script
GenerateErrorScript(test_request, error) ==
    IF test_request.test_type = "api"
    THEN << <<"import { test, expect } from '@playwright/test';">>,
            <<"">>,
            <<"test('Failed API Test', async ({ request }) => {">>,
            <<"  // This test failed with error: ", error>>,
            <<"  // Original prompt: ">> \o test_request.prompt,
            <<"  ">>,
            <<"  // TODO: Fix the error and retry">>,
            <<"});">> >>
    ELSE << <<"import { test, expect } from '@playwright/test';">>,
            <<"">>,
            <<"test('Failed UI Test', async ({ page }) => {">>,
            <<"  // This test failed with error: ", error>>,
            <<"  // Original prompt: ">> \o test_request.prompt,
            <<"  ">>,
            <<"  // TODO: Fix the error and retry">>,
            <<"});">> >>

NoResults == [success |-> FALSE, steps |-> <<>>]

\* variant: any() in place of all()
AnySuccess(steps) == \E k \in 1 .. Len(steps) : steps[k].status = "success"

\* all(step['status'] == 'success' for step in steps)
AllSuccess(steps) == \A k \in 1 .. Len(steps) : steps[k].status = "success"

\* the dict returned by _execute_ui_test / _execute_api_test, with the
\* execution_time and test_id that _execute_test_async adds to it
TestResult(test_request, steps, script_lines) ==
    [keys |-> {"status", "results", "generated_script", "execution_time", "test_id"},
     test_id |-> test_request.test_id,
     status |-> IF AllSuccess(steps) THEN "completed" ELSE "failed",
     error |-> Absent,
     execution_time |-> "elapsed",
     results |-> [success |-> AllSuccess(steps), steps |-> steps],
     generated_script |-> script_lines]

\* variant: the except clause reports the test as completed
ErrorResultCompleted(test_request, e) ==
    [keys |-> {"test_id", "status", "error", "execution_time", "results",
               "generated_script"},
     test_id |-> test_request.test_id,
     status |-> "completed",
     error |-> e,
     execution_time |-> "elapsed",
     results |-> NoResults,
     generated_script |-> GenerateErrorScript(test_request, e)]

\* the dict _execute_test_async returns from its except clause
ErrorResult(test_request, e) ==
    [keys |-> {"test_id", "status", "error", "execution_time", "results",
               "generated_script"},
     test_id |-> test_request.test_id,
     status |-> "failed",
     error |-> e,
     execution_time |-> "elapsed",
     results |-> NoResults,
     generated_script |-> GenerateErrorScript(test_request, e)]

\* variant: the except clause of the worker stores no generated_script
WorkerErrorResultNoScript(test_request, e) ==
    [keys |-> {"test_id", "status", "error", "execution_time"},
     test_id |-> test_request.test_id,
     status |-> "failed",
     error |-> e,
     execution_time |-> "0",
     results |-> NoResults,
     generated_script |-> <<>>]

\* the dict _run_async_test stores from its except clause (no 'results' key)
WorkerErrorResult(test_request, e) ==
    [keys |-> {"test_id", "status", "error", "execution_time", "generated_script"},
     test_id |-> test_request.test_id,
     status |-> "failed",
     error |-> e,
     execution_time |-> "0",
     results |-> NoResults,
     generated_script |-> GenerateErrorScript(test_request, e)]

\* the sentinel of get_test_results
NotFoundResult(id) ==
    [keys |-> {"test_id", "status", "error"},
     test_id |-> id,
     status |-> "not_found",
     error |-> "Test results not found",
     execution_time |-> Absent,
     results |-> NoResults,
     generated_script |-> <<>>]

Step(action, status, screenshot, logs) ==
    [action |-> action, status |-> status, screenshot |-> screenshot, logs |-> logs]

----------------------------------------------------------------------------
(* EnhancedTestExecutor._execute_action *)

\* The outcomes of one action: what _execute_action returns (returns = FALSE
\* when it falls off its end and returns None), the lines it appends to
\* script_lines, and the messages of the exceptions raised on the way.
\* variant: a screenshot that fails after the page has loaded fails the
\* navigate step
NavigateScreenshotFails(action) ==
    Step(<<"navigate">>, "failed", Absent,
         << <<"Error executing navigate: ", "navigation screenshot failed">> >>)

\* the navigate step when page.goto returned and page.screenshot raised:
\* the inner except clause logs the failure and the step is returned
NavigateScreenshotFailed(action) ==
    Step(<<"navigate to ", action.url>>, "success", None,
         << <<"Navigated to ", action.url>>,
            <<"Screenshot failed: ", "navigation screenshot failed">> >>)

ExecuteAction(action) ==
    IF action.type = "navigate" THEN
        LET lines == << <<"  // Navigate to ", action.url>>,
                        <<"  await page.goto('", action.url, "');">>,
                        <<"  await page.waitForLoadState('networkidle');">> >>
        IN  { \* page.goto or page.wait_for_timeout raises
              [returns |-> TRUE, lines |-> lines, raised |-> {"goto failed"},
               step |-> Step(<<"navigate">>, "failed", Absent,
                             << <<"Error executing navigate: ", "goto failed">> >>)],
              \* loaded, screenshot captured
              [returns |-> TRUE, lines |-> lines, raised |-> {},
               step |-> Step(<<"navigate to ", action.url>>, "success", "b64",
                             << <<"Navigated to ", action.url>>,
                                <<"Screenshot captured successfully">> >>)],
              \* loaded, screenshot raises
              [returns |-> TRUE, lines |-> lines,
               raised |-> {"navigation screenshot failed"},
               step |-> NavigateScreenshotFailed(action)] }
    ELSE IF action.type = "screenshot" THEN
        LET lines == << <<"  // Take screenshot">>,
                        <<"  await page.screenshot({ path: 'screenshot.png', fullPage: true });">> >>
        IN  { [returns |-> TRUE, lines |-> lines, raised |-> {},
               step |-> Step(<<"screenshot">>, "success", "b64",
                             << <<"Screenshot captured">> >>)],
              [returns |-> TRUE, lines |-> lines, raised |-> {"screenshot failed"},
               step |-> Step(<<"screenshot">>, "failed", None,
                             << <<"Screenshot failed: ", "screenshot failed">> >>)] }
    ELSE
        \* no branch for this type: the function returns None
        { [returns |-> FALSE, lines |-> <<>>, raised |-> {},
           step |-> Step(<<action.type>>, None, Absent, <<>>)] }


----------------------------------------------------------------------------
(* TestExecutor._execute_action of services/test_executor.py, the older    *)
(* executor: one call, statement by statement. A call is a record; each    *)
(* operator gives the calls one statement can lead to, one per outcome of  *)
(* the page operation it makes.                                            *)

\* TestExecutor._get_selectors_for_target; a selector is the sequence of
\* the pieces of its f-string
GetSelectorsForTarget(target) ==
    IF target = "login" THEN
        << <<"button[type=\"submit\"]">>,
           <<"input[type=\"submit\"]">>,
           <<"button:has-text(\"Login\")">>,
           <<"button:has-text(\"Sign In\")">>,
           <<".login-button">>,
           <<"#login-button">> >>
    ELSE IF target = "submit" THEN
        << <<"button[type=\"submit\"]">>,
           <<"input[type=\"submit\"]">>,
           <<"button:has-text(\"Submit\")">>,
           <<".submit-button">> >>
    ELSE IF target = "button" THEN
        << <<"button">>,
           <<"input[type=\"button\"]">>,
           <<"input[type=\"submit\"]">>,
           <<".btn">> >>
    ELSE
        << <<"button:has-text(\"", target, "\")">>,
           <<".", target>>,
           <<"#", target>> >>

input_selectors ==
    << <<"input[type=\"text\"]">>, <<"input[type=\"email\"]">>,
       <<"input[type=\"password\"]">>, <<"textarea">> >>

success_selectors ==
    << <<".success">>, <<".alert-success">>, <<"[data-testid=\"success\"]">> >>

\* action.get(key, default)
ActionGet(action, key, default) ==
    IF action[key] = Absent THEN default ELSE action[key]

NoStep == Step(<< >>, None, Absent, << >>)

NoCall ==
    [pc |-> "none",
     action |-> Action(None, Absent, Absent, Absent, Absent),
     selectors |-> << >>,
     k |-> 1,
     clicked |-> FALSE,
     typed |-> FALSE,
     found |-> FALSE,
     tried |-> << >>,
     logs |-> << >>,
     result |-> NoStep,
     actions |-> << >>,
     i |-> 1,
     steps |-> << >>,
     exc |-> None]

\* return step
Return(c, step) == [c EXCEPT !.pc = "returned", !.result = step]

\* an exception reaches  except Exception as e  at the end of the function
Raise(c, e) ==
    Return(c, Step(<<c.action.type>>, "failed", Absent,
                   << <<"Error executing ", c.action.type, ": ", e>> >>))

\* variant: a verification that found no indicator is a failed step
VerifyStepByFound(condition, logs) ==
    Step(<<"verify ", condition>>,
         IF \E j \in 1 .. Len(logs) : logs[j] = <<"No success elements found">>
         THEN "failed" ELSE "success",
         Absent, logs)

\* the dict the verify branch returns
VerifyStep(condition, logs) ==
    Step(<<"verify ", condition>>, "success", Absent, logs)

\* action_type = action['type'] and the if / elif chain up to the first
\* page operation of the branch taken
CallEnter(c) ==
    LET a == c.action IN
    IF a.type = "navigate" THEN { [c EXCEPT !.pc = "goto"] }
    ELSE IF a.type = "click" THEN
        { [c EXCEPT !.pc = "click",
                    !.selectors = GetSelectorsForTarget(ActionGet(a, "target", "button"))] }
    ELSE IF a.type = "type" THEN
        { [c EXCEPT !.pc = "fill", !.selectors = input_selectors] }
    ELSE IF a.type = "verify" THEN
        LET condition == ActionGet(a, "condition", "page_loaded") IN
        IF condition = "page_loaded" THEN { [c EXCEPT !.pc = "title"] }
        ELSE IF condition = "element_present" THEN
            { [c EXCEPT !.pc = "wait_for_selector", !.selectors = success_selectors] }
        ELSE { Return(c, VerifyStep(condition, c.logs)) }
    ELSE IF a.type = "screenshot" THEN { [c EXCEPT !.pc = "screenshot"] }
    ELSE { Return(c, Step(<<"unknown action: ", a.type>>, "failed", Absent,
                          << <<"Unknown action type: ", a.type>> >>)) }

\* page.goto(url, wait_until='networkidle')
CallGoto(c) ==
    { [c EXCEPT !.pc = "navigate_screenshot",
                !.logs = Append(c.logs, <<"Navigated to ", c.action.url>>)],
      Raise(c, "goto failed") }

\* page.screenshot() after the navigation, and the returned dict
CallNavigateScreenshot(c) ==
    { Return(c, Step(<<"navigate to ", c.action.url>>, "success", "b64", c.logs)),
      Raise(c, "screenshot failed") }

\* one iteration of  for selector in selectors  of the click branch; after
\* the last selector has failed,  if not clicked  returns the failed step
CallClick(c) ==
    LET target == ActionGet(c.action, "target", "button")
        selector == c.selectors[c.k]
        tried == Append(c.tried, selector)
        not_found == Append(c.logs, <<"Could not find ", target, " to click">>)
    IN  { \* page.click returned: break
          [c EXCEPT !.pc = "click_wait",
                    !.tried = tried,
                    !.clicked = TRUE,
                    !.logs = Append(c.logs,
                        <<"Clicked ", target, " using selector: ">> \o selector)],
          \* page.click raised: continue
          IF c.k < Len(c.selectors)
          THEN [c EXCEPT !.tried = tried, !.k = c.k + 1]
          ELSE Return([c EXCEPT !.tried = tried, !.logs = not_found],
                      Step(<<"click ", target>>, "failed", Absent, not_found)) }

\* page.wait_for_timeout(1000)
CallClickWait(c) ==
    { [c EXCEPT !.pc = "click_screenshot"],
      Raise(c, "wait_for_timeout failed") }

\* page.screenshot() after the click, and the returned dict
CallClickScreenshot(c) ==
    LET target == ActionGet(c.action, "target", "button") IN
    { Return(c, Step(<<"click ", target>>, "success", "b64", c.logs)),
      Raise(c, "screenshot failed") }

\* one iteration of  for selector in input_selectors  and what follows the
\* loop when it ends
CallFill(c) ==
    LET text == ActionGet(c.action, "text", "test input")
        selector == c.selectors[c.k]
        tried == Append(c.tried, selector)
        typed == Append(c.logs, <<"Typed '", text, "' into ">> \o selector)
        not_found == Append(c.logs, <<"Could not find input field to type into">>)
    IN  { Return([c EXCEPT !.tried = tried, !.typed = TRUE, !.logs = typed],
                 Step(<<"type '", text, "'">>, "success", Absent, typed)),
          IF c.k < Len(c.selectors)
          THEN [c EXCEPT !.tried = tried, !.k = c.k + 1]
          ELSE Return([c EXCEPT !.tried = tried, !.logs = not_found],
                      Step(<<"type '", text, "'">>, "failed", Absent, not_found)) }

\* page.title() of verify page_loaded, and the returned dict
CallTitle(c) ==
    LET logs == Append(c.logs, <<"Page loaded with title: ", "title">>) IN
    { Return([c EXCEPT !.logs = logs], VerifyStep("page_loaded", logs)),
      Raise(c, "title failed") }

\* one iteration of  for selector in success_selectors  of verify
\* element_present, and what follows the loop when it ends
CallWaitForSelector(c) ==
    LET selector == c.selectors[c.k]
        tried == Append(c.tried, selector)
        found == Append(c.logs, <<"Found success element: ">> \o selector)
        not_found == Append(c.logs, <<"No success elements found">>)
    IN  { Return([c EXCEPT !.tried = tried, !.found = TRUE, !.logs = found],
                 VerifyStep("element_present", found)),
          IF c.k < Len(c.selectors)
          THEN [c EXCEPT !.tried = tried, !.k = c.k + 1]
          ELSE Return([c EXCEPT !.tried = tried, !.logs = not_found],
                      VerifyStep("element_present", not_found)) }

\* page.screenshot() of the screenshot branch, and the returned dict
CallScreenshot(c) ==
    LET logs == Append(c.logs, <<"Screenshot captured">>) IN
    { Return([c EXCEPT !.logs = logs],
             Step(<<"screenshot">>, "success", "b64", logs)),
      Raise(c, "screenshot failed") }

----------------------------------------------------------------------------
(* EnhancedTestExecutor._execute_test_async, statement by statement.       *)
(* A run is a record; each operator below gives the runs that one          *)
(* statement of the code can lead to, one per outcome of the external      *)
(* call it makes.                                                          *)

EmptyDict ==
    [keys |-> {}, test_id |-> 0, status |-> None, error |-> Absent,
     execution_time |-> Absent, results |-> NoResults, generated_script |-> <<>>]

UiHeader ==
    << <<"import { test, expect } from '@playwright/test';">>,
       <<"">>,
       <<"test('Generated UI Test', async ({ page }) => {">> >>

ApiHeader ==
    << <<"import { test, expect } from '@playwright/test';">>,
       <<"">>,
       <<"test('Generated API Test', async ({ request }) => {">> >>

\* variant: the mixed branch runs the api test
BeginRunMixedAsApi(test_request) ==
    [pc |-> IF test_request.test_type \in {"api", "mixed"}
            THEN "api_request" ELSE "launch",
     request |-> test_request,
     browser |-> "none",
     context |-> "none",
     actions |-> <<>>,
     i |-> 1,
     steps |-> <<>>,
     script_lines |-> IF test_request.test_type \in {"api", "mixed"}
                      THEN ApiHeader ELSE UiHeader,
     exc |-> None,
     raised |-> {},
     result |-> EmptyDict]

\* _execute_test_async entered: the branch on test_type and the header lines
BeginRun(test_request) ==
    [pc |-> IF test_request.test_type = "api" THEN "api_request" ELSE "launch",
     request |-> test_request,
     browser |-> "none",
     context |-> "none",
     actions |-> <<>>,
     i |-> 1,
     steps |-> <<>>,
     script_lines |-> IF test_request.test_type = "api" THEN ApiHeader ELSE UiHeader,
     exc |-> None,
     raised |-> {},
     result |-> EmptyDict]

\* variant: the except clause reports the steps recorded so far
EscapeKeepsSteps(r, e) ==
    [r EXCEPT !.pc = "returned", !.exc = e, !.raised = r.raised \cup {e},
              !.result = [ErrorResult(r.request, e) EXCEPT !.results.steps = r.steps]]

\* an exception leaves _execute_ui_test and reaches the except clause of
\* _execute_test_async
Escape(r, e) ==
    [r EXCEPT !.pc = "returned", !.exc = e, !.raised = r.raised \cup {e},
              !.result = ErrorResult(r.request, e)]

\* p.chromium.launch(headless=headless)
UiLaunch(r) ==
    { [r EXCEPT !.pc = "new_context", !.browser = "open"],
      Escape(r, "launch failed") }

\* browser.new_context(viewport=..., user_agent=...)
UiNewContext(r) ==
    { [r EXCEPT !.pc = "new_page", !.context = "open"],
      Escape(r, "new_context failed") }

\* context.new_page()
UiNewPage(r) ==
    { [r EXCEPT !.pc = "parse"],
      Escape(r, "new_page failed") }

\* actions = self._parse_actions_from_prompt(test_request['prompt'])
UiParse(r) ==
    LET actions == ParseActionsFromPrompt(r.request.prompt) IN
    { [r EXCEPT !.actions = actions,
                !.pc = IF actions = <<>> THEN "final" ELSE "actions"] }

\* variant: a loop without the break
NeverBreaks(step_result) == FALSE

\* if not step_result['status'] == 'success': break
Breaks(step_result) == ~(step_result.status = "success")

\* variant: a failed step leaves the try block at once (return in place of
\* break), so the final screenshot is not attempted
UiActionReturnsOnFailure(r) ==
    { IF ~o.returns
      THEN [r EXCEPT !.pc = "close_context",
                     !.steps = Append(r.steps, o.step),
                     !.raised = r.raised \cup {"'NoneType' object is not subscriptable"},
                     !.exc = "'NoneType' object is not subscriptable"]
      ELSE [r EXCEPT !.steps = Append(r.steps, o.step),
                     !.script_lines = r.script_lines \o o.lines,
                     !.raised = r.raised \cup o.raised,
                     !.i = r.i + 1,
                     !.pc = IF ~(o.step.status = "success") THEN "close_context"
                            ELSE IF r.i = Len(r.actions) THEN "final"
                            ELSE "actions"]
      : o \in ExecuteAction(r.actions[r.i]) }

\* variant: the script lines of an action are kept only when its step succeeds
UiActionDropsFailedBlock(r) ==
    { IF ~o.returns
      THEN [r EXCEPT !.pc = "close_context",
                     !.steps = Append(r.steps, o.step),
                     !.raised = r.raised \cup {"'NoneType' object is not subscriptable"},
                     !.exc = "'NoneType' object is not subscriptable"]
      ELSE [r EXCEPT !.steps = Append(r.steps, o.step),
                     !.script_lines = IF o.step.status = "success"
                                      THEN r.script_lines \o o.lines
                                      ELSE r.script_lines,
                     !.raised = r.raised \cup o.raised,
                     !.i = r.i + 1,
                     !.pc = IF Breaks(o.step) \/ r.i = Len(r.actions)
                            THEN "final" ELSE "actions"]
      : o \in ExecuteAction(r.actions[r.i]) }

\* one iteration of  for action in actions
UiAction(r) ==
    { IF ~o.returns
      THEN \* step_result is None: the subscript raises inside the try block
           [r EXCEPT !.pc = "close_context",
                     !.steps = Append(r.steps, o.step),
                     !.raised = r.raised \cup {"'NoneType' object is not subscriptable"},
                     !.exc = "'NoneType' object is not subscriptable"]
      ELSE [r EXCEPT !.steps = Append(r.steps, o.step),
                     !.script_lines = r.script_lines \o o.lines,
                     !.raised = r.raised \cup o.raised,
                     !.i = r.i + 1,
                     !.pc = IF Breaks(o.step) \/ r.i = Len(r.actions)
                            THEN "final" ELSE "actions"]
      : o \in ExecuteAction(r.actions[r.i]) }

\* the final page.screenshot(full_page=True) and its except clause
UiFinalScreenshot(r) ==
    { [r EXCEPT !.pc = "close_context",
                !.steps = Append(r.steps,
                    Step(<<"final_screenshot">>, "success", "b64",
                         << <<"Final screenshot captured">> >>)),
                !.script_lines = r.script_lines \o
                    << <<"  // Take final screenshot">>,
                       <<"  await page.screenshot({ path: 'final-screenshot.png', fullPage: true });">> >>],
      [r EXCEPT !.pc = "close_context",
                !.raised = r.raised \cup {"final screenshot failed"},
                !.steps = Append(r.steps,
                    Step(<<"final_screenshot">>, "failed", Absent,
                         << <<"Failed to capture final screenshot: ", "final screenshot failed">> >>))] }

\* finally: await context.close()
UiCloseContext(r) ==
    { [r EXCEPT !.pc = "close_browser", !.context = "closed"],
      Escape(r, "context close failed") }

\* finally: await browser.close(); then the pending exception, if any
UiCloseBrowser(r) ==
    { IF r.exc # None
      THEN Escape([r EXCEPT !.browser = "closed"], r.exc)
      ELSE [r EXCEPT !.pc = "assemble", !.browser = "closed"],
      Escape(r, "browser close failed") }

\* script_lines.append("});") and the returned dict
Assemble(r) ==
    LET script == Append(r.script_lines, <<"});">>) IN
    { [r EXCEPT !.pc = "returned",
                !.script_lines = script,
                !.result = TestResult(r.request, r.steps, script)] }

\* api_details['method'].lower()
LowerMethod(m) ==
    CASE m = "GET" -> "get" [] m = "POST" -> "post"
      [] m = "PUT" -> "put" [] m = "DELETE" -> "delete"

\* variant: a response with status code 400 still counts as a success
ApiStepStatusUpTo400(c) == IF CodeNum(c) <= 400 THEN "success" ELSE "failed"

\* 'success' if response.status_code < 400 else 'failed'
ApiStepStatus(c) == IF CodeNum(c) < 400 THEN "success" ELSE "failed"

\* _execute_api_test up to steps.append
ApiRequest(r) ==
    LET api_details == ParseApiFromPrompt(r.request.prompt)
        lines == << <<"  // Make ", api_details.method, " request to ", api_details.url>>,
                    <<"  const response = await request.", LowerMethod(api_details.method), "('", api_details.url, "');">>,
                    <<"  expect(response.status()).toBeLessThan(400);">> >>
        json_lines == << <<"  const jsonData = await response.json();">>,
                         <<"  expect(jsonData).toBeDefined();">> >>
        text_lines == << <<"  const textData = await response.text();">>,
                         <<"  expect(textData).toBeDefined();">> >>
    IN  { [r EXCEPT !.pc = "assemble",
                    !.steps = Append(r.steps,
                        Step(<<api_details.method, " ", api_details.url>>,
                             ApiStepStatus(c),
                             Absent,
                             << <<"Status Code: ", c>>,
                                <<"Response Time: ">>,
                                <<"Content Type: ", b>>,
                                <<IF b = "json" THEN "JSON Response: " ELSE "Text Response: ">> >>)),
                    !.script_lines = r.script_lines \o lines \o
                        (IF b = "json" THEN json_lines ELSE text_lines)]
          : c \in StatusCodes, b \in BodyKinds }
        \cup
        \* requests.request raises
        { [r EXCEPT !.pc = "assemble",
                    !.raised = r.raised \cup {"request failed"},
                    !.steps = Append(r.steps,
                        Step(<<"api_request">>, "failed", Absent,
                             << <<"Error: ", "request failed">> >>)),
                    !.script_lines = r.script_lines \o lines \o
                        << <<"  // Error occurred: ", "request failed">> >>] }

\* the statements a run can execute next
RunNext(r) ==
    CASE r.pc = "launch" -> UiLaunch(r)
      [] r.pc = "new_context" -> UiNewContext(r)
      [] r.pc = "new_page" -> UiNewPage(r)
      [] r.pc = "parse" -> UiParse(r)
      [] r.pc = "actions" -> UiAction(r)
      [] r.pc = "final" -> UiFinalScreenshot(r)
      [] r.pc = "close_context" -> UiCloseContext(r)
      [] r.pc = "close_browser" -> UiCloseBrowser(r)
      [] r.pc = "assemble" -> Assemble(r)
      [] r.pc = "api_request" -> ApiRequest(r)
      [] OTHER -> {}

RECURSIVE RunToEnd(_)
RunToEnd(R) ==
    IF \A r \in R : r.pc = "returned" THEN R
    ELSE RunToEnd(UNION { IF r.pc = "returned" THEN {r} ELSE RunNext(r) : r \in R })

\* every point every run of _execute_test_async(test_request) goes through
RECURSIVE RunsFrom(_)
RunsFrom(R) ==
    LET N == R \cup UNION { RunNext(r) : r \in R }
    IN  IF N = R THEN R ELSE RunsFrom(N)

AllRuns(test_request) == RunsFrom({BeginRun(test_request)})

\* every run of _execute_test_async(test_request) that returns
CompletedRuns(test_request) == RunToEnd({BeginRun(test_request)})

\* the exceptions that make a step or the whole run fail; a screenshot that
\* fails after a successful navigation is only logged
BestEffort == {"navigation screenshot failed"}


----------------------------------------------------------------------------
(* The status store and the entry points *)

\* variant: the assignment rebinds the name to a new dict with one entry
PutFresh(d, k, v) == [x \in {k} |-> v]

\* d[k] = v
Put(d, k, v) == [x \in DOMAIN d \cup {k} |-> IF x = k THEN v ELSE d[x]]

\* variant: d.setdefault(k, default), which stores the default
DictSetDefault(d, k, default) ==
    [value |-> IF k \in DOMAIN d THEN d[k] ELSE default,
     dict |-> IF k \in DOMAIN d THEN d ELSE Put(d, k, default)]

\* variant: d.pop(k, default), which removes the entry
DictPop(d, k, default) ==
    [value |-> IF k \in DOMAIN d THEN d[k] ELSE default,
     dict |-> [x \in DOMAIN d \ {k} |-> d[x]]]

\* d.get(k, default): the value returned and the dict after the call
DictGet(d, k, default) ==
    [value |-> IF k \in DOMAIN d THEN d[k] ELSE default, dict |-> d]

\* variant: an id generator that hands out the same value again
Uuid4Reused(n) == 1

\* variant: from the second call on the generator repeats its last value
Uuid4Previous(n) == IF n = 0 THEN 1 ELSE n

\* str(uuid.uuid4()): a value no earlier call returned
Uuid4(n) == n + 1

NoRequest == TestRequest(0, <<>>, None, None)

NoWorker == [pc |-> "none", request |-> NoRequest, result |-> EmptyDict, exc |-> None]

IdleChat == [pc |-> "idle", request |-> NoRequest, response |-> NoIntent]

\* an HTTP response: handled = FALSE when the view function itself raised
Response(endpoint, code, test_id, status, error, result) ==
    [endpoint |-> endpoint, handled |-> TRUE, code |-> code, test_id |-> test_id,
     status |-> status, error |-> error, result |-> result, ran |-> EmptyDict]

NoResponse == Response("none", 0, 0, Absent, Absent, EmptyDict)

NoReads == [test_id |-> 0, result |-> EmptyDict, count |-> 0]

\* the messages sent to /chat/message when several jobs run side by side
ChatPrompts ==
    { <<"take", "a", "screenshot">>,
      <<"hello">> }

TestTypes == {"ui", "api", "mixed", "load"}

Terminal == {"completed", "failed"}

Init ==
    /\ test_status = << >>
    /\ test_results = << >>
    /\ running_tests = {}
    /\ worker = [id \in Ids |-> NoWorker]
    /\ chat = IdleChat
    /\ used = 0
    /\ resp = NoResponse
    /\ reads = NoReads
    /\ call = NoCall
    /\ run = BeginRun(NoRequest)

\* handle_chat_message for a message that is no test request
ChatReply(message) ==
    /\ chat.pc = "idle"
    /\ ~ProcessMessage(message).is_test_request
    /\ resp' = Response("chat", 200, 0, Absent, Absent, EmptyDict)
    /\ resp' # resp
    /\ UNCHANGED <<storeVars, worker, chat, used, reads, run, call>>

\* variant: execute_test_async without its first status write
ChatSubmitNoStatus(message) ==
    LET response == ProcessMessage(message)
        test_id == Uuid4(used)
        test_request == TestRequest(test_id, message, response.test_type,
                                    response.target_url)
    IN  /\ chat.pc = "idle"
        /\ used < MaxJobs
        /\ response.is_test_request
        /\ used' = used + 1
        /\ chat' = [pc |-> "status_written", request |-> test_request,
                    response |-> response]
        /\ resp' = NoResponse
        /\ UNCHANGED <<storeVars, worker, reads, run, call>>

\* handle_chat_message for a test request, up to and including
\* execute_test_async line  self.test_status[test_id] = 'running'
ChatSubmit(message) ==
    LET response == ProcessMessage(message)
        test_id == Uuid4(used)
        test_request == TestRequest(test_id, message, response.test_type,
                                    response.target_url)
    IN  /\ chat.pc = "idle"
        /\ used < MaxJobs
        /\ response.is_test_request
        /\ used' = used + 1
        /\ test_status' = Put(test_status, test_id, "running")
        /\ chat' = [pc |-> "status_written", request |-> test_request,
                    response |-> response]
        /\ resp' = NoResponse
        /\ UNCHANGED <<test_results, running_tests, worker, reads, run, call>>

\* thread.start(): the worker thread exists from here on
ChatStartThread ==
    /\ chat.pc = "status_written"
    /\ worker' = [worker EXCEPT ![chat.request.test_id] =
                     [pc |-> "started", request |-> chat.request,
                      result |-> EmptyDict, exc |-> None]]
    /\ chat' = [chat EXCEPT !.pc = "thread_started"]
    /\ resp' = NoResponse
    /\ UNCHANGED <<storeVars, used, reads, run, call>>

\* thread.start() raises RuntimeError (no thread can be created); the
\* except clause of handle_chat_message answers 500
ChatStartThreadFails ==
    /\ chat.pc = "status_written"
    /\ chat' = IdleChat
    /\ resp' = Response("chat", 500, 0, Absent, "can't start new thread", EmptyDict)
    /\ UNCHANGED <<storeVars, worker, used, reads, run, call>>

\* variant: the status 'running' is written after thread.start()
ChatReturnWritesRunning ==
    /\ chat.pc = "thread_started"
    /\ running_tests' = running_tests \cup {chat.request.test_id}
    /\ test_status' = Put(test_status, chat.request.test_id, "running")
    /\ chat' = IdleChat
    /\ resp' = Response("chat", 200, chat.request.test_id, "pending", Absent, EmptyDict)
    /\ UNCHANGED <<test_results, worker, used, reads, run, call>>

\* self.running_tests[test_id] = thread, and the acknowledgment
ChatReturn ==
    /\ chat.pc = "thread_started"
    /\ running_tests' = running_tests \cup {chat.request.test_id}
    /\ chat' = IdleChat
    /\ resp' = Response("chat", 200, chat.request.test_id, "pending", Absent, EmptyDict)
    /\ UNCHANGED <<test_status, test_results, worker, used, reads, run, call>>

\* the dict _run_async_test stores: the runner's return, or the dict of its
\* except clause when asyncio.run itself raised (no event loop can be made);
\* raised: the messages of the exceptions raised in that run
WorkerOutcomes(test_request) ==
    { [result |-> r.result, exc |-> None, raised |-> r.raised]
      : r \in CompletedRuns(test_request) }
    \cup
    { [result |-> WorkerErrorResult(test_request, "asyncio.run failed"),
       exc |-> "asyncio.run failed", raised |-> {"asyncio.run failed"}] }

\* variant: the worker's first write is the status, not the result
WorkerStoreStatusFirst(id) ==
    /\ worker[id].pc = "started"
    /\ \E o \in WorkerOutcomes(worker[id].request) :
          /\ test_status' = Put(test_status, id, o.result.status)
          /\ worker' = [worker EXCEPT ![id].pc = "stored",
                                      ![id].result = o.result,
                                      ![id].exc = o.exc]
    /\ resp' = NoResponse
    /\ UNCHANGED <<test_results, running_tests, chat, used, reads, run, call>>

\* _run_async_test: the test is run inside the thread, and then
\* self.test_results[test_id] = result
WorkerStoreResult(id) ==
    /\ worker[id].pc = "started"
    /\ \E o \in WorkerOutcomes(worker[id].request) :
          /\ test_results' = Put(test_results, id, o.result)
          /\ worker' = [worker EXCEPT ![id].pc = "stored",
                                      ![id].result = o.result,
                                      ![id].exc = o.exc]
    /\ resp' = NoResponse
    /\ UNCHANGED <<test_status, running_tests, chat, used, reads, run, call>>

\* the status _run_async_test stores: result['status'], or 'failed' in its
\* except clause
WorkerStatus(w) == IF w.exc = None THEN w.result.status ELSE "failed"

\* variant: the status is written under an executor-wide "current" id, the
\* id of the job submitted last
WorkerStoreStatusCurrentId(id) ==
    /\ worker[id].pc = "stored"
    /\ test_status' = Put(test_status, used, WorkerStatus(worker[id]))
    /\ worker' = [worker EXCEPT ![id].pc = "done"]
    /\ resp' = NoResponse
    /\ UNCHANGED <<test_results, running_tests, chat, used, reads, run, call>>

\* _run_async_test: self.test_status[test_id] = ...
WorkerStoreStatus(id) ==
    /\ worker[id].pc = "stored"
    /\ test_status' = Put(test_status, id, WorkerStatus(worker[id]))
    /\ worker' = [worker EXCEPT ![id].pc = "done"]
    /\ resp' = NoResponse
    /\ UNCHANGED <<test_results, running_tests, chat, used, reads, run, call>>

\* EnhancedTestExecutor.get_test_status, behind GET /test/status/<test_id>
GetTestStatus(id) ==
    LET got == DictGet(test_status, id, "not_found") IN
    /\ test_status' = got.dict
    /\ resp' = Response("status", 200, id, got.value, Absent, EmptyDict)
    /\ resp' # resp
    /\ UNCHANGED <<test_results, running_tests, worker, chat, used, reads, run, call>>

\* EnhancedTestExecutor.get_test_results, behind GET /test/results/<test_id>
ReadResults(id) ==
    LET got == DictGet(test_results, id, NotFoundResult(id)) IN
    /\ test_results' = got.dict
    /\ resp' = Response("results", 200, id, got.value.status, got.value.error,
                        got.value)
    /\ UNCHANGED <<test_status, running_tests, worker, chat, used, run, call>>

GetTestResults(id) ==
    /\ ReadResults(id)
    /\ resp' # resp
    /\ UNCHANGED reads

\* variant: the synchronous run records its result and status in the store
SyncExecuteStores(prompt, test_type) ==
    LET test_id == Uuid4(used)
        test_request == TestRequest(test_id, prompt, test_type, None)
    IN  /\ used < MaxJobs
        /\ used' = used + 1
        /\ \E result \in { r.result : r \in CompletedRuns(test_request) } :
              /\ resp' = [Response("execute", 500, test_id, "failed",
                                   "a coroutine was expected", EmptyDict)
                          EXCEPT !.ran = result]
              /\ test_results' = Put(test_results, test_id, result)
              /\ test_status' = Put(test_status, test_id, result.status)
        /\ UNCHANGED <<running_tests, worker, chat, reads, run, call>>

\* POST /test/execute with a JSON body
SyncExecute(prompt, test_type) ==
    LET test_id == Uuid4(used)
        test_request == TestRequest(test_id, prompt, test_type, None)
    IN  /\ used < MaxJobs
        /\ used' = used + 1
        /\ \E result \in { r.result : r \in CompletedRuns(test_request) } :
              \* execute_test returned the dict; asyncio.run(<dict>) raises
              \* ValueError, answered by the except clause
              resp' = [Response("execute", 500, test_id, "failed",
                                "a coroutine was expected", EmptyDict)
                       EXCEPT !.ran = result]
        /\ UNCHANGED <<storeVars, worker, chat, reads, run, call>>

\* POST /test/execute with a body request.get_json() rejects: the except
\* clause reads test_id before it was assigned
SyncExecuteBadBody ==
    /\ resp' = [Response("execute", 500, 0, Absent, "UnboundLocalError", EmptyDict)
                EXCEPT !.handled = FALSE]
    /\ resp' # resp
    /\ UNCHANGED <<storeVars, worker, chat, used, reads, run, call>>

\* the asynchronous path: the chat entry point, the workers and the readers
Next ==
    \/ \E m \in ChatPrompts : ChatReply(m)
    \/ \E m \in ChatPrompts : ChatSubmit(m)
    \/ ChatStartThread
    \/ ChatStartThreadFails
    \/ ChatReturn
    \/ \E id \in Ids : WorkerStoreResult(id)
    \/ \E id \in Ids : WorkerStoreStatus(id)
    \/ \E id \in Ids : GetTestStatus(id)
    \/ \E id \in Ids : GetTestResults(id)

Spec == Init /\ [][Next]_vars

\* the synchronous entry point, with the readers
NextSync ==
    \/ \E m \in Prompts, t \in TestTypes : SyncExecute(m, t)
    \/ SyncExecuteBadBody
    \/ \E id \in Ids : GetTestStatus(id)
    \/ \E id \in Ids : GetTestResults(id)

SpecSync == Init /\ [][NextSync]_vars

\* a client that polls the results of one job and remembers what it got
\* once the job had ended
PollResults(id) ==
    LET ended == id \in DOMAIN test_status /\ test_status[id] \in Terminal IN
    /\ ReadResults(id)
    /\ reads' = IF ended /\ reads.test_id = 0
                THEN [test_id |-> id, result |-> resp'.result, count |-> 1]
                ELSE IF reads.test_id = id /\ reads.count < MaxReads
                THEN [reads EXCEPT !.count = reads.count + 1]
                ELSE reads
    /\ (resp' # resp \/ reads' # reads)

\* the first message of the process, any prompt
ChatSubmitFirst(message) ==
    /\ used = 0
    /\ ChatSubmit(message)

\* one job from submission to its end, with every prompt and every outcome
\* of the run, and a polling client
NextJob ==
    \/ \E m \in Prompts : ChatReply(m)
    \/ \E m \in Prompts : ChatSubmitFirst(m)
    \/ ChatStartThread
    \/ ChatStartThreadFails
    \/ ChatReturn
    \/ \E id \in Ids : WorkerStoreResult(id)
    \/ \E id \in Ids : WorkerStoreStatus(id)
    \/ \E id \in Ids : GetTestStatus(id)
    \/ \E id \in Ids : PollResults(id)

SpecJob == Init /\ [][NextJob]_vars

\* one job and a client that asks for its status
NextLive ==
    \/ \E m \in Prompts : ChatSubmitFirst(m)
    \/ ChatStartThread
    \/ ChatStartThreadFails
    \/ ChatReturn
    \/ \E id \in Ids : WorkerStoreResult(id)
    \/ \E id \in Ids : WorkerStoreStatus(id)
    \/ \E id \in Ids : GetTestStatus(id)

\* the request thread goes on to the end of handle_chat_message, and a
\* started worker thread is scheduled until _run_async_test has returned;
\* every call the worker makes returns or raises (WorkerOutcomes)
SpecLive ==
    /\ Init /\ [][NextLive]_vars
    /\ WF_vars(ChatStartThread \/ ChatStartThreadFails \/ ChatReturn)
    /\ \A id \in Ids : WF_vars(WorkerStoreResult(id))
    /\ \A id \in Ids : WF_vars(WorkerStoreStatus(id))

----------------------------------------------------------------------------
(* One run of _execute_test_async, statement by statement *)

InitRunner ==
    /\ test_status = << >>
    /\ test_results = << >>
    /\ running_tests = {}
    /\ worker = [id \in Ids |-> NoWorker]
    /\ chat = IdleChat
    /\ used = 0
    /\ resp = NoResponse
    /\ reads = NoReads
    /\ call = NoCall
    /\ \E p \in Prompts, t \in TestTypes :
          run = BeginRun(TestRequest(1, p, t, ExtractUrl(p)))

\* p.<engine>.launch
RunLaunch ==
    /\ run.pc = "launch"
    /\ run' \in UiLaunch(run)
    /\ UNCHANGED <<storeVars, worker, chat, used, resp, reads, call>>

\* browser.new_context
RunNewContext ==
    /\ run.pc = "new_context"
    /\ run' \in UiNewContext(run)
    /\ UNCHANGED <<storeVars, worker, chat, used, resp, reads, call>>

\* context.new_page
RunNewPage ==
    /\ run.pc = "new_page"
    /\ run' \in UiNewPage(run)
    /\ UNCHANGED <<storeVars, worker, chat, used, resp, reads, call>>

\* _parse_actions_from_prompt
RunParse ==
    /\ run.pc = "parse"
    /\ run' \in UiParse(run)
    /\ UNCHANGED <<storeVars, worker, chat, used, resp, reads, call>>

\* one iteration of the action loop
RunAction ==
    /\ run.pc = "actions"
    /\ run' \in UiAction(run)
    /\ UNCHANGED <<storeVars, worker, chat, used, resp, reads, call>>

\* the final screenshot
RunFinalScreenshot ==
    /\ run.pc = "final"
    /\ run' \in UiFinalScreenshot(run)
    /\ UNCHANGED <<storeVars, worker, chat, used, resp, reads, call>>

\* context.close
RunCloseContext ==
    /\ run.pc = "close_context"
    /\ run' \in UiCloseContext(run)
    /\ UNCHANGED <<storeVars, worker, chat, used, resp, reads, call>>

\* browser.close
RunCloseBrowser ==
    /\ run.pc = "close_browser"
    /\ run' \in UiCloseBrowser(run)
    /\ UNCHANGED <<storeVars, worker, chat, used, resp, reads, call>>

\* the returned dict
RunAssemble ==
    /\ run.pc = "assemble"
    /\ run' \in Assemble(run)
    /\ UNCHANGED <<storeVars, worker, chat, used, resp, reads, call>>

\* the HTTP request of an api test
RunApiRequest ==
    /\ run.pc = "api_request"
    /\ run' \in ApiRequest(run)
    /\ UNCHANGED <<storeVars, worker, chat, used, resp, reads, call>>

NextRunner ==
    \/ RunLaunch
    \/ RunNewContext
    \/ RunNewPage
    \/ RunParse
    \/ RunAction
    \/ RunFinalScreenshot
    \/ RunCloseContext
    \/ RunCloseBrowser
    \/ RunAssemble
    \/ RunApiRequest

SpecRunner == InitRunner /\ [][NextRunner]_vars

----------------------------------------------------------------------------
(* The action loop of _execute_ui_test and _execute_action, over lists of  *)
(* action dicts of every kind the interpreter knows                        *)

ActionKinds == {"navigate", "click", "type", "verify", "screenshot", "wait"}

\* the action dicts, as far as _execute_action reads them
LoopActions ==
    { [type |-> k, url |-> IF k = "navigate" THEN "https://example.com" ELSE None]
      : k \in ActionKinds }

ActionLists ==
    UNION { [1 .. n -> LoopActions] : n \in 1 .. MaxActions }

\* the page is open and the loop is about to take its first action
InitLoop ==
    /\ test_status = << >>
    /\ test_results = << >>
    /\ running_tests = {}
    /\ worker = [id \in Ids |-> NoWorker]
    /\ chat = IdleChat
    /\ used = 0
    /\ resp = NoResponse
    /\ reads = NoReads
    /\ call = NoCall
    /\ \E actions \in ActionLists :
          run = [BeginRun(TestRequest(1, <<"take", "a", "screenshot">>, "ui", None))
                    EXCEPT !.pc = "actions", !.browser = "open",
                           !.context = "open", !.actions = actions]

NextLoop ==
    \/ RunAction
    \/ RunFinalScreenshot
    \/ RunCloseContext
    \/ RunCloseBrowser
    \/ RunAssemble

SpecLoop == InitLoop /\ [][NextLoop]_vars

----------------------------------------------------------------------------
(* The action loop of TestExecutor._execute_ui_test (test_executor.py)     *)
(* with TestExecutor._execute_action, over lists of action dicts           *)

\* the action dicts, as far as TestExecutor._execute_action reads them
CallActions ==
    { Action("navigate", "https://example.com", Absent, Absent, Absent),
      Action("screenshot", Absent, Absent, Absent, Absent),
      Action("wait", Absent, Absent, Absent, Absent) }
    \cup { Action("click", Absent, t, Absent, Absent)
           : t \in {"login", "submit", "link", Absent} }
    \cup { Action("type", Absent, Absent, t, Absent) : t \in {"hello", Absent} }
    \cup { Action("verify", Absent, Absent, Absent, c)
           : c \in {"element_present", "success", Absent} }

CallLists ==
    UNION { [1 .. n -> CallActions] : n \in 1 .. MaxActions }

\* the page is open and the loop is about to call _execute_action for
\* its first action
InitAction ==
    /\ test_status = << >>
    /\ test_results = << >>
    /\ running_tests = {}
    /\ worker = [id \in Ids |-> NoWorker]
    /\ chat = IdleChat
    /\ used = 0
    /\ resp = NoResponse
    /\ reads = NoReads
    /\ run = BeginRun(NoRequest)
    /\ \E actions \in CallLists :
          call = [NoCall EXCEPT !.pc = "entry", !.actions = actions,
                                !.action = actions[1]]

ActEnter ==
    /\ call.pc = "entry"
    /\ call' \in CallEnter(call)
    /\ UNCHANGED <<storeVars, worker, chat, used, resp, reads, run>>

ActGoto ==
    /\ call.pc = "goto"
    /\ call' \in CallGoto(call)
    /\ UNCHANGED <<storeVars, worker, chat, used, resp, reads, run>>

ActNavigateScreenshot ==
    /\ call.pc = "navigate_screenshot"
    /\ call' \in CallNavigateScreenshot(call)
    /\ UNCHANGED <<storeVars, worker, chat, used, resp, reads, run>>

ActClick ==
    /\ call.pc = "click"
    /\ call' \in CallClick(call)
    /\ UNCHANGED <<storeVars, worker, chat, used, resp, reads, run>>

ActClickWait ==
    /\ call.pc = "click_wait"
    /\ call' \in CallClickWait(call)
    /\ UNCHANGED <<storeVars, worker, chat, used, resp, reads, run>>

ActClickScreenshot ==
    /\ call.pc = "click_screenshot"
    /\ call' \in CallClickScreenshot(call)
    /\ UNCHANGED <<storeVars, worker, chat, used, resp, reads, run>>

ActFill ==
    /\ call.pc = "fill"
    /\ call' \in CallFill(call)
    /\ UNCHANGED <<storeVars, worker, chat, used, resp, reads, run>>

ActTitle ==
    /\ call.pc = "title"
    /\ call' \in CallTitle(call)
    /\ UNCHANGED <<storeVars, worker, chat, used, resp, reads, run>>

ActWaitForSelector ==
    /\ call.pc = "wait_for_selector"
    /\ call' \in CallWaitForSelector(call)
    /\ UNCHANGED <<storeVars, worker, chat, used, resp, reads, run>>

ActScreenshot ==
    /\ call.pc = "screenshot"
    /\ call' \in CallScreenshot(call)
    /\ UNCHANGED <<storeVars, worker, chat, used, resp, reads, run>>

\* steps.append(step_result); if not step_result['status'] == 'success':
\* break; otherwise the next action, with fresh locals
ActLoop ==
    /\ call.pc = "returned"
    /\ call' = IF Breaks(call.result) \/ call.i = Len(call.actions)
               THEN [call EXCEPT !.pc = "final_screenshot",
                                 !.steps = Append(call.steps, call.result)]
               ELSE [NoCall EXCEPT !.pc = "entry",
                                   !.actions = call.actions,
                                   !.i = call.i + 1,
                                   !.action = call.actions[call.i + 1],
                                   !.steps = Append(call.steps, call.result)]
    /\ UNCHANGED <<storeVars, worker, chat, used, resp, reads, run>>

\* the final page.screenshot(), which has no except clause of its own
ActFinalScreenshot ==
    /\ call.pc = "final_screenshot"
    /\ \/ call' = [call EXCEPT !.pc = "close",
                       !.steps = Append(call.steps,
                           Step(<<"final_screenshot">>, "success", "b64",
                                << <<"Final screenshot captured">> >>))]
       \/ call' = [call EXCEPT !.pc = "close", !.exc = "final screenshot failed"]
    /\ UNCHANGED <<storeVars, worker, chat, used, resp, reads, run>>

\* finally: await browser.close()
ActCloseBrowser ==
    /\ call.pc = "close"
    /\ \/ call' = [call EXCEPT !.pc = "closed"]
       \/ call' = [call EXCEPT !.pc = "closed", !.exc = "browser close failed"]
    /\ UNCHANGED <<storeVars, worker, chat, used, resp, reads, run>>

NextAction ==
    \/ ActEnter
    \/ ActGoto
    \/ ActNavigateScreenshot
    \/ ActClick
    \/ ActClickWait
    \/ ActClickScreenshot
    \/ ActFill
    \/ ActTitle
    \/ ActWaitForSelector
    \/ ActScreenshot
    \/ ActLoop
    \/ ActFinalScreenshot
    \/ ActCloseBrowser

SpecAction == InitAction /\ [][NextAction]_vars

----------------------------------------------------------------------------
(* Properties *)

TypeOK ==
    /\ DOMAIN test_status \subseteq Ids
    /\ DOMAIN test_results \subseteq Ids
    /\ \A id \in DOMAIN test_status : test_status[id] \in {"running"} \cup Terminal
    /\ used \in 0 .. MaxJobs

\* what get_test_status(id) / get_test_results(id) return in the current state
StatusOf(id) == DictGet(test_status, id, "not_found").value
ResultsOf(id) == DictGet(test_results, id, NotFoundResult(id)).value

\* the chat handler has returned the acknowledgment for id
Submitted(id) == id \in running_tests

\* C1: a job id has a stored result if and only if its stored status is
\* completed or failed; in particular no state shows a result next to status
\* running.
C1_ResultIffTerminal ==
    \A id \in Ids :
        (id \in DOMAIN test_results)
            <=> (id \in DOMAIN test_status /\ test_status[id] \in Terminal)

\* C2: once the stored status of an id is completed or failed, no step of any
\* operation changes the stored status or the stored result of that id (so
\* the status moves to a terminal value exactly once).
C2_TerminalImmutable ==
    [][\A id \in Ids :
          (id \in DOMAIN test_status /\ test_status[id] \in Terminal)
          => /\ id \in DOMAIN test_results
             /\ id \in DOMAIN test_status' /\ test_status'[id] = test_status[id]
             /\ id \in DOMAIN test_results' /\ test_results'[id] = test_results[id]
      ]_vars

\* a job has ended, a later job was submitted and the first one is read again
C2_Witness ==
    /\ worker[1].pc = "done"
    /\ test_status[1] \in Terminal
    /\ 2 \in DOMAIN test_status
    /\ resp.endpoint = "results" /\ resp.test_id = 1

\* C3: right after the chat handler returned the acknowledgment for a new id
\* and before the worker took a step, get_test_status of that id is pending.
C3_PendingAfterSubmit ==
    \A id \in Ids :
        (resp.endpoint = "chat" /\ resp.test_id = id /\ worker[id].pc = "started")
        => StatusOf(id) = "pending"

\* C4: between the return of submit and the worker's terminal status write,
\* get_test_status of the job returns pending or running, never completed,
\* failed or not_found.
C4_InFlightStatus ==
    \A id \in Ids :
        (Submitted(id) /\ worker[id].pc \in {"started", "stored"})
        => /\ StatusOf(id) \in {"pending", "running"}
           /\ (resp.endpoint = "status" /\ resp.test_id = id)
                 => resp.status \in {"pending", "running"}

\* the status was read while the result was already stored and the status
\* write still pending
C4_Witness ==
    \E id \in Ids :
        /\ Submitted(id) /\ worker[id].pc = "stored"
        /\ resp.endpoint = "status" /\ resp.test_id = id /\ resp.status = "running"

\* the stored dict carries the text e: in its error field or in a log line
\* of a failed step
CarriesErrorText(res, e) ==
    \/ "error" \in res.keys /\ res.error = e
    \/ /\ "results" \in res.keys
       /\ \E k \in 1 .. Len(res.results.steps) :
             /\ res.results.steps[k].status = "failed"
             /\ \E l \in 1 .. Len(res.results.steps[k].logs) :
                   LET line == res.results.steps[k].logs[l]
                   IN  line[Len(line)] = e

\* C5: whatever exception is raised while a job runs (launch, context, page,
\* action, final screenshot, close, HTTP request, or asyncio.run itself), the
\* worker ends, and it ends with status failed stored together with a result
\* whose status is failed and which carries the text of a raised exception.
C5_FailuresContained ==
    \A id \in Ids :
        worker[id].pc = "done"
        => /\ id \in DOMAIN test_results /\ id \in DOMAIN test_status
           /\ \E o \in WorkerOutcomes(worker[id].request) :
                 o.result = test_results[id]
           /\ \A o \in WorkerOutcomes(worker[id].request) :
                 (o.result = test_results[id] /\ o.raised \ BestEffort # {})
                 => /\ test_status[id] = "failed"
                    /\ test_results[id].status = "failed"
                    /\ \E e \in o.raised \ BestEffort :
                          CarriesErrorText(test_results[id], e)

\* a job whose browser could not be launched has ended
C5_Witness ==
    \E id \in Ids :
        /\ worker[id].pc = "done"
        /\ test_status[id] = "failed"
        /\ test_results[id].error = "launch failed"

\* C6: POST /test/execute answers a valid request with the TestResult the
\* run returned.
C6_SyncReturnsTestResult ==
    (resp.endpoint = "execute" /\ resp.ran.keys # {})
    => (resp.handled /\ resp.code = 200 /\ resp.result = resp.ran)

\* C7: POST /test/execute answers every request, also one whose body cannot
\* be parsed, with a response of its own that carries a status and, when the
\* status is failed, an error text.
C7_SyncFailuresContained ==
    resp.endpoint = "execute"
    => /\ resp.handled
       /\ resp.status # Absent
       /\ resp.status = "failed" => resp.error # Absent

\* C8: for an id that was never submitted, get_test_status and
\* get_test_results return status not_found, and no entry exists for that id
\* in the store, also after it was read.
C8_UnknownIdNotFound ==
    \A id \in Ids :
        id > used
        => /\ id \notin DOMAIN test_status
           /\ id \notin DOMAIN test_results
           /\ StatusOf(id) = "not_found"
           /\ ResultsOf(id).status = "not_found"
           /\ (resp.endpoint \in {"status", "results"} /\ resp.test_id = id)
                 => (resp.handled /\ resp.status = "not_found")

\* the results of an unknown id were read while jobs exist
C8_Witness ==
    /\ used > 0
    /\ resp.endpoint = "results" /\ resp.test_id > used
    /\ resp.status = "not_found"
    /\ test_status # << >>

\* C9: a get_test_status or get_test_results call leaves the store unchanged,
\* and every get_test_results call for an id returns what the first call
\* made after the job ended returned.
C9_ReadsIdempotent ==
    [][resp'.endpoint \in {"status", "results"}
       => /\ UNCHANGED storeVars
          /\ (resp'.endpoint = "results" /\ reads'.test_id = resp'.test_id)
                => resp'.result = reads'.result
      ]_vars

\* the results of an ended job were read for the second time
C9_Witness ==
    /\ reads.count = 2
    /\ resp.endpoint = "results" /\ resp.test_id = reads.test_id
    /\ resp.result.status \in Terminal

\* the step a ui run records for an action
Records(step, action) ==
    IF action.type = "navigate"
    THEN step.action \in {<<"navigate to ", action.url>>, <<"navigate">>}
    ELSE step.action = <<action.type>>

\* C10: in a ui run the steps recorded by the action loop are, one for one
\* and in order, the steps of a prefix of the action sequence; all but the
\* last are successes, the loop stops at the first failed step, and the
\* final_screenshot step follows them.
C10_StepsArePrefix ==
    (/\ run.request.test_type # "api"
     /\ run.exc = None
     /\ run.pc \in {"actions", "final", "close_context", "close_browser",
                    "assemble", "returned"})
    => LET steps == IF run.pc = "returned" THEN run.result.results.steps
                    ELSE run.steps
           inLoop == run.pc \in {"actions", "final"}
           n == IF inLoop THEN Len(steps) ELSE Len(steps) - 1
       IN  /\ n >= 0 /\ n <= Len(run.actions)
           /\ \A k \in 1 .. n : Records(steps[k], run.actions[k])
           /\ \A k \in 1 .. (n - 1) : steps[k].status = "success"
           /\ run.pc = "actions"
                 => (n < Len(run.actions) /\ \A k \in 1 .. n : steps[k].status = "success")
           /\ (run.pc # "actions" /\ n < Len(run.actions))
                 => (n >= 1 /\ steps[n].status = "failed")
           /\ ~inLoop => steps[n + 1].action = <<"final_screenshot">>

\* a run of two actions whose first action failed has returned
C10_Witness ==
    /\ run.pc = "returned" /\ run.exc = None
    /\ run.request.test_type # "api"
    /\ Len(run.actions) = 2
    /\ Len(run.result.results.steps) = 2
    /\ run.result.results.steps[1].status = "failed"

\* the result of a run that _execute_ui_test returned normally
UiResult ==
    /\ run.pc = "returned" /\ run.exc = None
    /\ run.request.test_type # "api"

\* the positions of the final_screenshot steps of a step list
FinalShots(steps) ==
    {k \in 1 .. Len(steps) : steps[k].action = <<"final_screenshot">>}

\* C11: a ui run whose action steps all succeeded is reported completed even
\* when the final screenshot failed; the failure is recorded as a failed
\* final_screenshot step and does not flip the overall status.
C11_FinalShotFailureKeepsStatus ==
    (/\ UiResult
     /\ LET steps == run.result.results.steps
        IN  /\ Len(steps) >= 1
            /\ steps[Len(steps)].action = <<"final_screenshot">>
            /\ steps[Len(steps)].status = "failed"
            /\ \A k \in 1 .. (Len(steps) - 1) : steps[k].status = "success")
    => /\ run.result.status = "completed"
       /\ run.result.results.success

\* C12: every result returned by the ui path ends with a final_screenshot
\* step and holds no other one, whether the loop ran through all the actions
\* or stopped at a failed step.
C12_OneFinalScreenshot ==
    UiResult
    => LET steps == run.result.results.steps
       IN  /\ Len(steps) >= 1
           /\ FinalShots(steps) = {Len(steps)}
           /\ steps[Len(steps)].status \in {"success", "failed"}

\* a ui run that stopped at a failed first action of two has returned with
\* its final_screenshot step
C12_Witness ==
    /\ UiResult
    /\ Len(run.actions) = 2
    /\ Len(run.result.results.steps) = 2
    /\ run.result.results.steps[1].status = "failed"
    /\ run.result.results.steps[2].action = <<"final_screenshot">>

\* C13: a result returned by the ui or the api path has status completed
\* exactly when every recorded step has status success, its results.success
\* says the same, and its status is never anything but completed or failed.
C13_StatusIffAllStepsSucceed ==
    (run.pc = "returned" /\ run.exc = None)
    => LET steps == run.result.results.steps
           allOk == \A k \in 1 .. Len(steps) : steps[k].status = "success"
       IN  /\ run.result.status \in {"completed", "failed"}
           /\ (run.result.status = "completed") <=> allOk
           /\ run.result.results.success <=> allOk

\* a ui run with a successful navigation and a failed screenshot action has
\* returned failed
C13_Witness ==
    /\ UiResult
    /\ Len(run.result.results.steps) = 3
    /\ run.result.results.steps[1].status = "success"
    /\ run.result.results.steps[2].status = "failed"
    /\ run.result.status = "failed"
    /\ ~run.result.results.success

WorkerSteps(id) ==
    /\ worker[id].pc \in {"started", "stored"}
    /\ worker'[id].pc \in {"stored", "done"}
    /\ worker'[id].pc # worker[id].pc

\* the entries of id in the two dicts are the same before and after the step
EntriesUnchanged(id) ==
    /\ (id \in DOMAIN test_status') <=> (id \in DOMAIN test_status)
    /\ id \in DOMAIN test_status => test_status'[id] = test_status[id]
    /\ (id \in DOMAIN test_results') <=> (id \in DOMAIN test_results)
    /\ id \in DOMAIN test_results => test_results'[id] = test_results[id]

\* C15: jobs running side by side are independent: a step of one job's
\* worker writes only that job's entries and leaves every other job's
\* entries and worker alone, and the result and status it stores are those
\* of a run of that job's own request alone (one of the outcomes of
\* _execute_test_async on that request, fixed by the external responses it
\* gets).
C15_JobsIndependent ==
    [][\A id \in Ids :
          WorkerSteps(id)
          => /\ \A other \in Ids \ {id} :
                    EntriesUnchanged(other) /\ worker'[other] = worker[other]
             /\ id \in DOMAIN test_results'
             /\ \E o \in WorkerOutcomes(worker[id].request) :
                    /\ test_results'[id] = o.result
                    /\ o.result.test_id = id
                    /\ worker'[id].pc = "done"
                          => (id \in DOMAIN test_status'
                              /\ test_status'[id] = o.result.status)
      ]_vars

\* two jobs ran side by side and ended differently: the second has its
\* final status while the first is between its two writes
C15_Witness ==
    /\ worker[1].pc = "stored" /\ worker[2].pc = "done"
    /\ test_results[1].status = "failed"
    /\ test_status[1] = "running"
    /\ test_status[2] = "completed"
    /\ test_results[2].status = "completed"


\* the request is one handle_chat_message builds for its prompt
ChatBuilt(test_request) ==
    LET response == ProcessMessage(test_request.prompt) IN
    /\ response.is_test_request
    /\ test_request.test_type = response.test_type
    /\ test_request.target_url = response.target_url

\* the run has parsed its actions inside _execute_ui_test
ActionsParsed ==
    /\ run.request.test_type # "api"
    /\ run.exc = None
    /\ run.pc \in {"actions", "final", "close_context", "close_browser",
                   "assemble", "returned"}

\* the runner's action dicts, written as the interpreter writes them
AsInterpreted(actions) ==
    [k \in 1 .. Len(actions) |->
        Action(actions[k].type, actions[k].url, None, None, None)]

\* C16: for a job submitted through the chat entry point, the action
\* sequence the runner's loop works through is exactly the action sequence
\* the prompt interpreter produced for the prompt, in the same order.
C16_RunsInterpretedActions ==
    (ChatBuilt(run.request) /\ ActionsParsed)
    => AsInterpreted(run.actions) = ProcessMessage(run.request.prompt).actions

\* no test-trigger keyword occurs in the message
NoTestKeyword(message) ==
    \A kw \in test_keywords, i \in 1 .. Len(message) :
        kw \notin Substrings(LowerTok(message[i]))

\* C17: for a message without any test-trigger keyword process_message
\* returns a conversational reply, is_test_request false and no intent; the
\* chat entry point creates a job only for a message with such a keyword,
\* and the step that answers another message starts no worker, draws no id
\* and leaves the status store unchanged, so no id ever holds a status or a
\* result for it.
C17_PlainMessageCreatesNoJob ==
    [][/\ \A m \in Prompts :
              NoTestKeyword(m)
              => LET response == ProcessMessage(m) IN
                 /\ ~response.is_test_request
                 /\ response.test_type = None /\ response.target_url = None
                 /\ response.actions = <<>>
                 /\ response.content # None
       /\ (chat.pc = "idle" /\ chat'.pc # "idle")
              => ~NoTestKeyword(chat'.request.prompt)
       /\ (chat.pc = "idle" /\ chat'.pc = "idle" /\ resp'.endpoint = "chat")
              => /\ resp'.code = 200 /\ resp'.test_id = 0
                 /\ UNCHANGED <<storeVars, worker, used, chat>>
       /\ \A id \in Ids :
              /\ (id \notin DOMAIN test_status /\ id \in DOMAIN test_status')
                     => (chat'.request.test_id = id
                         /\ ~NoTestKeyword(chat'.request.prompt))
              /\ (worker[id].pc = "none" /\ worker'[id].pc # "none")
                     => ~NoTestKeyword(worker'[id].request.prompt)
              /\ (id \notin DOMAIN test_results /\ id \in DOMAIN test_results')
                     => ~NoTestKeyword(worker[id].request.prompt)
      ]_vars

\* a plain message was answered while the job of an earlier message is
\* between its two writes
C17_Witness ==
    /\ resp.endpoint = "chat" /\ resp.code = 200 /\ resp.test_id = 0
    /\ chat.pc = "idle"
    /\ worker[1].pc = "stored"
    /\ DOMAIN test_status = {1} /\ DOMAIN test_results = {1}

\* the place of an action kind in the interpreter's fixed order
KindRank(type) ==
    CASE type = "navigate" -> 1 [] type = "click" -> 2 [] type = "type" -> 3
      [] type = "verify" -> 4 [] type = "screenshot" -> 5 [] OTHER -> 0

\* "go to https://example.com and take a screenshot" and a reordering of it
GoToAndScreenshot ==
    { <<"go", "to", "https://example.com", "and", "take", "a", "screenshot">>,
      <<"take", "a", "screenshot", "and", "go", "to", "https://example.com">> }

C19_DefaultScreenshot ==
    (/\ ActionsParsed
     /\ FindUrls(run.request.prompt) # <<>>
     /\ \A kind \in DOMAIN action_patterns :
            ~AnyPattern(Lower(run.request.prompt), kind))
    => \E k \in 1 .. Len(run.actions) : run.actions[k].type = "screenshot"

\* the positions of the absolute URLs of a prompt
UrlPositions(p) == {i \in 1 .. Len(p) : p[i] \in UrlTokens}

\* the positions of the bare domains that follow on, at or from
DomainPositions(p) ==
    {i \in 2 .. Len(p) : p[i] \in DomainTokens /\ p[i - 1] \in {"on", "at", "from"}}

Least(S) == CHOOSE i \in S : \A j \in S : i <= j

\* C20: the target_url process_message returns is the first absolute URL of
\* the prompt, character for character; without an absolute URL it is
\* https://{domain} for the first bare domain that follows on, at or from;
\* with neither it is null.
C20_TargetUrl ==
    chat.pc # "idle"
    => LET p == chat.request.prompt
           target_url == chat.response.target_url
       IN  /\ UrlPositions(p) # {} => target_url = p[Least(UrlPositions(p))]
           /\ (UrlPositions(p) = {} /\ DomainPositions(p) # {})
                  => target_url = HttpsOf(p[Least(DomainPositions(p))])
           /\ (UrlPositions(p) = {} /\ DomainPositions(p) = {})
                  => target_url = None
           /\ chat.request.target_url = target_url

\* the handler holds the intent of a prompt with two URLs, the first of them
\* with capital letters
C20_Witness ==
    /\ chat.pc = "status_written"
    /\ chat.request.prompt =
          <<"check", "https://Example.com/A", "and", "https://example.com">>
    /\ chat.response.target_url = "https://Example.com/A"


\* the keys of MCPServer.test_patterns in dict order, without "_test"
GroupOrder == <<"ui", "api", "mixed">>

GroupPatterns(g) ==
    CASE g = 1 -> ui_test_patterns
      [] g = 2 -> api_test_patterns
      [] g = 3 -> mixed_test_patterns

\* the groups that have a pattern matching the message
MatchingGroups(message) ==
    {g \in 1 .. 3 :
        \E k \in 1 .. Len(GroupPatterns(g)) : Search(message, GroupPatterns(g)[k])}

\* C21: the test type of a test-request prompt is that of the first group,
\* in the order ui_test, api_test, mixed_test, with a matching pattern, and
\* ui when no group matches; a prompt matching a ui pattern and an api
\* pattern is classified ui.
C21_FirstGroupWins ==
    chat.pc # "idle"
    => LET matching == MatchingGroups(Lower(chat.request.prompt)) IN
       /\ chat.response.test_type =
             (IF matching = {} THEN "ui" ELSE GroupOrder[Least(matching)])
       /\ ({1, 2} \subseteq matching => chat.response.test_type = "ui")
       /\ chat.request.test_type = chat.response.test_type

\* the handler holds the intent of a prompt that matches a ui pattern and an
\* api pattern
C21_Witness ==
    /\ chat.pc = "status_written"
    /\ chat.request.prompt = <<"test", "login", "api">>
    /\ MatchingGroups(Lower(chat.request.prompt)) = {1, 2}
    /\ chat.response.test_type = "ui"

\* C22: when the prompt triggers a type action and holds a double-quoted
\* text, the text of the type action is that quoted text as written in the
\* prompt, letter case included.
C22_TypedTextVerbatim ==
    (/\ chat.pc # "idle"
     /\ FindQuoted(chat.request.prompt) # <<>>
     /\ AnyPattern(Lower(chat.request.prompt), "type"))
    => \E k \in 1 .. Len(chat.response.actions) :
          /\ chat.response.actions[k].type = "type"
          /\ chat.response.actions[k].text = FindQuoted(chat.request.prompt)[1]

\* the run took the api path and has recorded its step
ApiRun ==
    /\ run.request.test_type = "api"
    /\ run.pc \in {"assemble", "returned"}

\* the status codes a step logs
LoggedCodes(step) ==
    {c \in StatusCodes :
        \E j \in 1 .. Len(step.logs) : step.logs[j] = <<"Status Code: ", c>>}

\* C23: an api test records exactly one step on every path; the step, and
\* with it the result, is failed exactly when the status code is 400 or
\* above or the request raised. After a 200 response the step is success,
\* its logs hold "Status Code: 200" and the generated script holds the
\* assertion that the response status is below 400.
C23_ApiSingleStep ==
    ApiRun
    => LET steps == IF run.pc = "returned" THEN run.result.results.steps
                    ELSE run.steps
           step == steps[1]
           raised == "request failed" \in run.raised
           bad == raised \/ \E c \in LoggedCodes(step) : CodeNum(c) >= 400
           script == IF run.pc = "returned" THEN run.result.generated_script
                     ELSE run.script_lines
       IN  /\ Len(steps) = 1
           /\ run.exc = None
           /\ step.status \in {"success", "failed"}
           /\ (step.status = "failed") <=> bad
           /\ IF raised THEN LoggedCodes(step) = {}
                        ELSE Cardinality(LoggedCodes(step)) = 1
           /\ run.pc = "returned"
                 => /\ (run.result.status = "failed") <=> bad
                    /\ (run.result.status = "completed") <=> ~bad
                    /\ run.result.results.success <=> ~bad
           /\ "200" \in LoggedCodes(step)
                 => /\ step.status = "success"
                    /\ \E j \in 1 .. Len(script) :
                          script[j] = <<"  expect(response.status()).toBeLessThan(400);">>

\* the api test of "test the GET /users endpoint returning JSON" has
\* returned after a 200 response with a JSON body
C23_Witness ==
    /\ ApiRun /\ run.pc = "returned"
    /\ run.request.prompt =
          <<"test", "the", "GET", "/users", "endpoint", "returning", "JSON">>
    /\ run.result.results.steps[1].action =
          <<"GET", " ", "https://api.example.com/users">>
    /\ "200" \in LoggedCodes(run.result.results.steps[1])
    /\ <<"Content Type: ", "json">> = run.result.results.steps[1].logs[3]
    /\ run.result.status = "completed"

\* line is one of the lines of script
HasLine(script, line) == \E j \in 1 .. Len(script) : script[j] = line

\* C24: every result the executor stores carries a generated_script: the
\* script buffer of the run when the ui or api path returned (passed or
\* failed), and otherwise the failure template with the error message and
\* the original prompt, both when the exception escaped the path and when
\* it escaped the worker.
C24_AlwaysGeneratedScript ==
    \A id \in DOMAIN test_results :
        LET res == test_results[id]
            req == worker[id].request
        IN  /\ "generated_script" \in res.keys
            /\ res.generated_script # <<>>
            /\ IF res.error = Absent
               THEN /\ res.status \in Terminal
                    /\ \E r \in CompletedRuns(req) :
                          /\ r.exc = None
                          /\ r.result = res
                          /\ res.generated_script = r.script_lines
                    /\ res.generated_script[Len(res.generated_script)] = <<"});">>
               ELSE /\ res.status = "failed"
                    /\ HasLine(res.generated_script,
                               <<"  // This test failed with error: ", res.error>>)
                    /\ HasLine(res.generated_script,
                               <<"  // Original prompt: ">> \o req.prompt)

\* the worker of an api job stored the dict of its own except clause
C24_Witness ==
    /\ 1 \in DOMAIN test_results
    /\ test_results[1].error = "asyncio.run failed"
    /\ worker[1].request.test_type = "api"
    /\ HasLine(test_results[1].generated_script,
               <<"test('Failed API Test', async ({ request }) => {">>)

\* C25: an exception that escapes the branch of the test type is caught by
\* _execute_test_async and returned as a result with status failed, the
\* exception's message in error and no steps, whatever steps were recorded
\* before it; the run always goes on to return a dict (no statement leaves
\* it without a successor and a pending exception is never dropped).
C25_EscapedExceptionContained ==
    /\ (run.pc = "returned" /\ run.exc # None)
          => /\ run.result.status = "failed"
             /\ run.result.error = run.exc
             /\ run.exc \in run.raised
             /\ run.result.results.steps = <<>>
             /\ ~run.result.results.success
             /\ {"test_id", "status", "error", "results"} \subseteq run.result.keys
             /\ run.result.test_id = run.request.test_id
    /\ run.pc # "returned"
          => /\ RunNext(run) # {}
             /\ \A r \in RunNext(run) : run.exc # None => r.exc # None

\* a ui run had recorded three steps when closing the context raised; it
\* has returned
C25_Witness ==
    /\ run.pc = "returned"
    /\ run.exc = "context close failed"
    /\ Len(run.steps) = 3
    /\ run.result.error = "context close failed"

\* the kinds _execute_action has a branch for
HandledKinds == {"navigate", "screenshot"}

\* C26: an action of a kind _execute_action does not handle gives a step
\* with status failed and a log that names the kind; the step is the last
\* action step of the test, nothing is raised and the run does not end in a
\* job-level failure.
C26_UnknownKindFailsStep ==
    \A k \in 1 .. Len(run.steps) :
        (k <= Len(run.actions) /\ run.actions[k].type \notin HandledKinds)
        => /\ run.steps[k].status = "failed"
           /\ \E j \in 1 .. Len(run.steps[k].logs) :
                 \E i \in 1 .. Len(run.steps[k].logs[j]) :
                    run.steps[k].logs[j][i] = run.actions[k].type
           /\ run.exc = None
           /\ run.pc = "returned" => run.result.error = Absent

\* the same run, of the same request with test_type ui
AsUi(r) == [r EXCEPT !.request.test_type = "ui"]

\* C27: a request of type mixed, or of any type other than api, runs exactly
\* as the same request of type ui: with the same external responses the
\* two runs go through the same points and return the same steps, the same
\* status and the same generated script.
C27_MixedRunsAsUi ==
    run.request.test_type \notin {"api", "ui"}
    => /\ run \in AllRuns(run.request)
       /\ { AsUi(r) : r \in AllRuns(run.request) } = AllRuns(AsUi(run).request)
       /\ \A r \in AllRuns(AsUi(run).request) :
             (r.pc = "returned" /\ r.raised = run.raised /\ run.pc = "returned"
                  /\ r.steps = run.steps)
             => /\ r.result.results.steps = run.result.results.steps
                /\ r.result.status = run.result.status
                /\ r.result.generated_script = run.result.generated_script

\* a mixed run with a failed first action of two has returned failed
C27_Witness ==
    /\ run.request.test_type = "mixed"
    /\ run.pc = "returned" /\ run.exc = None
    /\ Len(run.actions) = 2
    /\ Len(run.result.results.steps) = 2
    /\ run.result.status = "failed"

\* C28: no operation removes an entry: the ids with a status, the ids with a
\* result and the ids with a thread only grow, and once get_test_status
\* returns something other than not_found for an id it never returns
\* not_found for it again.
C28_NeverDeleted ==
    [][/\ DOMAIN test_status \subseteq DOMAIN test_status'
       /\ DOMAIN test_results \subseteq DOMAIN test_results'
       /\ running_tests \subseteq running_tests'
       /\ \A id \in Ids :
              DictGet(test_status, id, "not_found").value # "not_found"
              => DictGet(test_status', id, "not_found").value # "not_found"
      ]_vars

\* a finished job is still answered after a second job was stored
C28_Witness ==
    /\ DOMAIN test_status = {1, 2}
    /\ DOMAIN test_results = {1, 2}
    /\ worker[1].pc = "done" /\ worker[2].pc = "done"
    /\ resp.endpoint = "status" /\ resp.test_id = 1
    /\ resp.status \in Terminal

\* C29: a submission through the chat entry point is stored under an id no
\* earlier job used (no status, no result, no thread and no worker exists
\* for it), and each id has one worker: the worker of an id runs the request
\* that carries this id, is started once and is never replaced.
C29_UniqueIds ==
    [][/\ used' # used
          => LET id == chat'.request.test_id IN
             /\ used' = used + 1
             /\ id \in Ids
             /\ id \notin DOMAIN test_status
             /\ id \notin DOMAIN test_results
             /\ id \notin running_tests
             /\ worker[id].pc = "none"
             /\ \A other \in Ids :
                    worker[other].pc # "none"
                    => worker[other].request.test_id # id
       /\ \A id \in Ids :
             /\ worker'[id].pc # "none" => worker'[id].request.test_id = id
             /\ worker[id].pc # "none"
                   => /\ worker'[id].request = worker[id].request
                      /\ (worker'[id].pc # "started" \/ worker'[id] = worker[id])
      ]_vars

\* two jobs with their own ids and their own workers run side by side
C29_Witness ==
    /\ worker[1].pc = "stored" /\ worker[2].pc = "started"
    /\ worker[1].request.test_id = 1 /\ worker[2].request.test_id = 2
    /\ running_tests = {1, 2}

\* how far a status value is on the way not_found, running, completed/failed
StatusRank(s) ==
    CASE s = "not_found" -> 0 [] s = "running" -> 1
      [] s \in Terminal -> 2 [] OTHER -> 3

\* C30: the status of an id is running before its worker exists (so before
\* the runner is invoked for it), and what get_test_status returns for the
\* id moves only forwards: from not_found to running, from running to
\* completed or failed, and never from a terminal value to anything else.
C30_StatusMovesForward ==
    [][\A id \in Ids :
          LET s == DictGet(test_status, id, "not_found").value
              t == DictGet(test_status', id, "not_found").value
          IN  /\ StatusRank(t) >= StatusRank(s)
              /\ StatusRank(t) <= StatusRank(s) + 1
              /\ StatusRank(t) <= 2
              /\ StatusRank(s) = 2 => t = s
              /\ (worker[id].pc = "none" /\ worker'[id].pc # "none")
                    => (s = "running" /\ t = "running"
                        /\ worker'[id].pc = "started")
              /\ StatusRank(t) = 2 => worker'[id].pc = "done"
      ]_vars

\* the worker of a job has written its terminal status while the chat
\* handler that started it has not yet returned
C30_Witness ==
    /\ chat.pc = "thread_started"
    /\ worker[chat.request.test_id].pc = "done"
    /\ test_status[chat.request.test_id] \in Terminal

\* C39: when the action sequence of an intent holds a navigate action, the
\* url of that action is the target_url of the intent, for every prompt,
\* those with capital letters in their URL included.
C39_NavigateUrlIsTargetUrl ==
    chat.pc # "idle"
    => \A k \in 1 .. Len(chat.response.actions) :
          chat.response.actions[k].type = "navigate"
          => chat.response.actions[k].url = chat.response.target_url

\* C35: whenever get_test_status returns completed or failed for an id,
\* get_test_results for the id returns the stored result, not the sentinel,
\* with that same status, in the same state and in every later one.
C35_TerminalStatusHasResult ==
    /\ [](\A id \in Ids :
            StatusOf(id) \in Terminal
            => /\ ResultsOf(id) # NotFoundResult(id)
               /\ ResultsOf(id).status = StatusOf(id)
               /\ ResultsOf(id).test_id = id)
    /\ [][\A id \in Ids :
            StatusOf(id) \in Terminal
            => /\ DictGet(test_results', id, NotFoundResult(id)).value = ResultsOf(id)
               /\ DictGet(test_status', id, "not_found").value = StatusOf(id)
       ]_vars

\* get_test_results answers with the failed result of a job whose status is
\* failed
C35_Witness ==
    /\ resp.endpoint = "results" /\ resp.test_id = 1
    /\ StatusOf(1) = "failed"
    /\ resp.result = test_results[1]
    /\ resp.status = "failed"

\* C36: on the asynchronous path every job whose status is running
\* eventually has status completed or failed, when every external call
\* returns or raises and the threads are scheduled fairly.
C36_EveryJobEnds ==
    \A id \in Ids :
        (StatusOf(id) = "running") ~> (StatusOf(id) \in Terminal)

\* C37: an id with status running that the chat handler is no longer
\* working on has a worker that was started for it and has not yet written
\* its status.
C37_RunningHasWorker ==
    \A id \in Ids :
        (StatusOf(id) = "running" /\ chat.request.test_id # id)
        => worker[id].pc \in {"started", "stored"}

\* C38: a synchronous execution leaves the store unchanged: its test_id
\* never has an entry in test_status, test_results or running_tests and no
\* worker, and get_test_status and get_test_results answer not_found for
\* it before and after the run.
C38_SyncLeavesStoreAlone ==
    /\ [](/\ \A id \in Ids :
                /\ id \notin DOMAIN test_status
                /\ id \notin DOMAIN test_results
                /\ id \notin running_tests
                /\ worker[id].pc = "none"
          /\ resp.endpoint = "status" => resp.status = "not_found"
          /\ resp.endpoint = "results"
                => resp.result = NotFoundResult(resp.test_id))
    /\ [][resp'.endpoint = "execute" => UNCHANGED storeVars]_vars

\* the results of an id are asked for after it was run synchronously
C38_Witness ==
    /\ used = 1
    /\ resp.endpoint = "results" /\ resp.test_id = 1
    /\ resp.status = "not_found"
    /\ test_results = << >>

\* the page load of the k-th step, a navigate step, succeeded
Loaded(k) ==
    /\ k <= Len(run.actions) /\ run.actions[k].type = "navigate"
    /\ \/ \E j \in 1 .. Len(run.steps[k].logs) :
             run.steps[k].logs[j] = <<"Navigated to ", run.actions[k].url>>
       \/ \E j \in 1 .. Len(run.steps[k].logs) :
             run.steps[k].logs[j][1] = "Error executing navigate: "
             /\ run.steps[k].logs[j][2] = "navigation screenshot failed"

\* C32: a navigate step whose page load succeeded has status success even
\* when the screenshot after it failed: the step then has no screenshot
\* and a log line with the failure, and the loop goes on to the next
\* action.
C32_NavigateScreenshotBestEffort ==
    \A k \in 1 .. Len(run.steps) :
        Loaded(k)
        => /\ run.steps[k].status = "success"
           /\ run.steps[k].screenshot # "b64"
                => /\ run.steps[k].screenshot = None
                   /\ \E j \in 1 .. Len(run.steps[k].logs) :
                         run.steps[k].logs[j][1] = "Screenshot failed: "
           /\ k < Len(run.actions)
                => \/ Len(run.steps) > k
                   \/ run.pc = "actions" /\ run.i = k + 1

\* a navigation whose screenshot failed was followed by the next action
C32_Witness ==
    /\ Len(run.actions) = 2 /\ Len(run.steps) >= 2
    /\ Loaded(1)
    /\ run.steps[1].status = "success"
    /\ run.steps[1].screenshot = None
    /\ run.steps[2].action = <<"screenshot">>
    /\ run.steps[2].status = "success"

\* the script lines _execute_action appends for an action of a kind it handles
BlockOf(action) ==
    IF action.type = "navigate"
    THEN << <<"  // Navigate to ", action.url>>,
            <<"  await page.goto('", action.url, "');">>,
            <<"  await page.waitForLoadState('networkidle');">> >>
    ELSE << <<"  // Take screenshot">>,
            <<"  await page.screenshot({ path: 'screenshot.png', fullPage: true });">> >>

\* the blocks of the first n actions, in order
RECURSIVE Blocks(_, _)
Blocks(actions, n) ==
    IF n = 0 THEN << >> ELSE Blocks(actions, n - 1) \o BlockOf(actions[n])

\* the lines _execute_ui_test appends after a final screenshot it could take
FinalBlock(steps) ==
    IF steps # << >> /\ steps[Len(steps)].action = <<"final_screenshot">>
                     /\ steps[Len(steps)].status = "success"
    THEN << <<"  // Take final screenshot">>,
            <<"  await page.screenshot({ path: 'final-screenshot.png', fullPage: true });">> >>
    ELSE << >>

\* the steps of the actions, without the step of the final screenshot
ActionSteps(steps) ==
    IF steps # << >> /\ steps[Len(steps)].action = <<"final_screenshot">>
    THEN SubSeq(steps, 1, Len(steps) - 1) ELSE steps

\* C34: the generated script of a ui test mirrors the execution. While
\* the loop runs, the script is the header followed by the blocks of the
\* actions executed so far, in order. The script _execute_ui_test returns
\* is the header, the block of every executed action in execution order
\* (the failed one included), nothing for the actions skipped after the
\* first failed step, the block of the final screenshot when it was
\* taken, and the closing statement as the last line.
C34_ScriptMirrorsExecution ==
    LET n == Len(ActionSteps(run.steps)) IN
    /\ run.pc = "returned"
         => run.result.generated_script[Len(run.result.generated_script)]
                = <<"});">>
    /\ run.exc = None /\ run.request.test_type # "api"
    => /\ run.pc \in {"actions", "final"}
            => run.script_lines = UiHeader \o Blocks(run.actions, n)
       /\ (run.pc = "returned" /\ run.result.error = Absent)
            => /\ n <= Len(run.actions)
               /\ n < Len(run.actions)
                    => n > 0 /\ run.steps[n].status # "success"
               /\ \A k \in 1 .. n - 1 : run.steps[k].status = "success"
               /\ run.result.generated_script
                    = UiHeader \o Blocks(run.actions, n)
                        \o FinalBlock(run.steps) \o << <<"});">> >>

\* a run of two actions whose first step failed: the script has the block
\* of the first action and nothing of the second
C34_Witness ==
    /\ run.pc = "returned" /\ run.exc = None /\ run.result.error = Absent
    /\ Len(run.actions) = 2
    /\ run.actions[2].type = "navigate"
    /\ Len(ActionSteps(run.steps)) = 1
    /\ run.steps[1].status = "failed"
    /\ run.result.generated_script
         = UiHeader \o BlockOf(run.actions[1]) \o FinalBlock(run.steps)
             \o << <<"});">> >>

\* C31: a click step tries the candidate selectors of its target in table
\* order, stops at the first selector whose click succeeds, and is failed
\* only if every candidate failed: when one click succeeded the step
\* returned has status success.
C31_ClickFailsOnlyIfAllFail ==
    LET ClickTarget == ActionGet(call.action, "target", "button")
        ClickTable == GetSelectorsForTarget(ClickTarget)
    IN
    call.action.type = "click" /\ call.pc \notin {"none", "entry"}
    => /\ Len(call.tried) <= Len(ClickTable)
       /\ call.tried = SubSeq(ClickTable, 1, Len(call.tried))
       /\ call.clicked
            => call.logs = << <<"Clicked ", ClickTarget, " using selector: ">>
                                \o call.tried[Len(call.tried)] >>
       /\ call.pc = "returned"
            => /\ call.result.status = "failed"
                    => ~call.clicked /\ call.tried = ClickTable
               /\ call.clicked => call.result.status = "success"

\* the verification in progress looks for a success indicator
VerifiesElementPresent ==
    /\ call.action.type = "verify"
    /\ ActionGet(call.action, "condition", "page_loaded") = "element_present"

\* C33: a verify element_present step has status success whether or not a
\* success indicator was found: it logs the selector found, or that none
\* was found after every selector was tried, and the action loop goes on
\* to the next action after it.
C33_VerifyElementPresentSucceeds ==
    /\ [](VerifiesElementPresent /\ call.pc = "returned"
          => /\ call.result.status = "success"
             /\ call.result.action = <<"verify ", "element_present">>
             /\ call.result.logs = call.logs
             /\ call.found
                  => call.logs = << <<"Found success element: ">>
                                      \o call.tried[Len(call.tried)] >>
             /\ ~call.found
                  => /\ call.logs = << <<"No success elements found">> >>
                     /\ call.tried = success_selectors)
    /\ [][VerifiesElementPresent /\ call.pc = "returned"
             /\ call.i < Len(call.actions)
          => /\ call'.pc = "entry"
             /\ call'.i = call.i + 1
             /\ call'.steps = Append(call.steps, call.result)]_vars

\* a verification that found no indicator was followed by the next action
C33_Witness ==
    /\ call.i = 2 /\ call.pc = "returned"
    /\ call.actions[1].type = "verify"
    /\ call.actions[1].condition = "element_present"
    /\ call.steps[1].status = "success"
    /\ call.steps[1].logs = << <<"No success elements found">> >>

====
